---- MODULE Spec2Model ----
(***************************************************************************)
(* A model of timesheet_dashboard.py: a Streamlit script that is re-run    *)
(* from top to bottom on every user interaction.  The state is the loaded  *)
(* data frame, the sidebar widget values, st.session_state and what the    *)
(* last run of the script computed.                                        *)
(*                                                                         *)
(* Representation.                                                         *)
(*  - A calendar date is a day number; day 0 is Monday 1 January 2024.     *)
(*  - A datetime is a number of ticks, TicksPerDay ticks to the day; tick  *)
(*    0 of a day is midnight.                                              *)
(*  - Hours (Aantal) are in hundredths of an hour: 3000 is 30.00 hours.    *)
(*  - A string of the data or of the user is a tuple of one-character      *)
(*    strings, so that lower-casing, stripping and substring search are    *)
(*    computed; equality of tuples is exact string equality.               *)
(***************************************************************************)
EXTENDS Integers, Sequences, FiniteSets, TLC

\* ------------------------------------------------------------------ bounds
\* rows of the sample file that one uploaded file holds at most
MaxRecords == 3
\* sidebar widgets that are off their default value at the same time
MaxChanged == 2
\* ticks (datetime resolution) per calendar day
TicksPerDay == 2
\* number of days the wall clock moves through
NowDays == 8
\* chat interactions in one session
MaxHistory == 1
\* chat interactions in a session that is about the conversation log
MaxLog == 2

\* the first day the wall clock shows: Monday 15 January 2024
FirstNowDay == 14

\* ----------------------------------------------------------------- strings
Lower(c) ==
    CASE c = "A" -> "a" [] c = "B" -> "b" [] c = "C" -> "c" [] c = "D" -> "d"
      [] c = "E" -> "e" [] c = "F" -> "f" [] c = "G" -> "g" [] c = "H" -> "h"
      [] c = "I" -> "i" [] c = "J" -> "j" [] c = "K" -> "k" [] c = "L" -> "l"
      [] c = "M" -> "m" [] c = "N" -> "n" [] c = "O" -> "o" [] c = "P" -> "p"
      [] c = "Q" -> "q" [] c = "R" -> "r" [] c = "S" -> "s" [] c = "T" -> "t"
      [] c = "U" -> "u" [] c = "V" -> "v" [] c = "W" -> "w" [] c = "X" -> "x"
      [] c = "Y" -> "y" [] c = "Z" -> "z" [] OTHER -> c

\* the text as typed
StrLower_omitted(s) == s

\* str.lower()
StrLower(s) == [i \in 1..Len(s) |-> Lower(s[i])]

IsSpace(c) == c \in {" ", "\t", "\n"}

\* str.strip(): drop leading and trailing whitespace
StrStrip(s) ==
    LET keep == {i \in 1..Len(s) : ~IsSpace(s[i])}
    IN  IF keep = {} THEN <<>>
        ELSE LET lo == CHOOSE i \in keep : \A j \in keep : i <= j
                 hi == CHOOSE i \in keep : \A j \in keep : i >= j
             IN  SubSeq(s, lo, hi)

\* pattern in text (Python's substring test)
StrContains(text, pattern) ==
    \E i \in 0..(Len(text) - Len(pattern)) :
        \A j \in 1..Len(pattern) : text[i + j] = pattern[j]

\* the characters in code-point order, for comparing strings as Python does
CodePoints ==
    <<" ", "'", "-",
      "0","1","2","3","4","5","6","7","8","9", ":", "?",
      "A","B","C","D","E","F","G","H","I","J","K","L","M",
      "N","O","P","Q","R","S","T","U","V","W","X","Y","Z",
      "a","b","c","d","e","f","g","h","i","j","k","l","m",
      "n","o","p","q","r","s","t","u","v","w","x","y","z">>

Ord(c) == CHOOSE i \in 1..Len(CodePoints) : CodePoints[i] = c

\* a < b for strings: at the first position where they differ, or a is a
\* proper prefix of b
StrLess(a, b) ==
    \/ \E i \in 1..Len(a) :
           /\ i <= Len(b)
           /\ \A j \in 1..(i - 1) : a[j] = b[j]
           /\ Ord(a[i]) < Ord(b[i])
    \/ /\ Len(a) < Len(b)
       /\ \A j \in 1..Len(a) : a[j] = b[j]

\* ------------------------------------------------------------------- dates
\* datetime.weekday(): Monday is 0, Sunday is 6
Weekday(day) == day % 7

\* Timestamp of a parsed DD-MM-YYYY date: midnight of that day
ToDatetime(day) == day * TicksPerDay

\* .dt.date / datetime.date(): the calendar-date component
DtDate(ts) == ts \div TicksPerDay

\* datetime +/- timedelta(days = n)
AddDays(ts, n) == ts + n * TicksPerDay

\* the calendar of the model is the year 2024 (a leap year)
Year == 2024

DaysInMonth == <<31, 29, 31, 30, 31, 30, 31, 31, 30, 31, 30, 31>>

RECURSIVE DaysBeforeMonth(_)
DaysBeforeMonth(month) ==
    IF month = 1 THEN 0 ELSE DaysBeforeMonth(month - 1) + DaysInMonth[month - 1]

\* the month (1..12) and the day of the month of a day number
MonthOf(day) ==
    CHOOSE month \in 1..12 :
        /\ DaysBeforeMonth(month) <= day
        /\ day < DaysBeforeMonth(month) + DaysInMonth[month]

DayOfMonth(day) == day - DaysBeforeMonth(MonthOf(day)) + 1

DigitChars == <<"0", "1", "2", "3", "4", "5", "6", "7", "8", "9">>

IsDigit(c) == \E i \in 1..10 : DigitChars[i] = c

DigitValue(c) == (CHOOSE i \in 1..10 : DigitChars[i] = c) - 1

\* a number printed with two and with four digits
Fmt02(n) == <<DigitChars[((n \div 10) % 10) + 1], DigitChars[(n % 10) + 1]>>

Fmt04(n) ==
    <<DigitChars[((n \div 1000) % 10) + 1], DigitChars[((n \div 100) % 10) + 1]>>
        \o Fmt02(n % 100)

\* strftime('%d-%m-%Y') of a date
FormatDMY(day) ==
    Fmt02(DayOfMonth(day)) \o <<"-">> \o Fmt02(MonthOf(day)) \o <<"-">> \o Fmt04(Year)

\* how to_csv writes a datetime64 column that holds midnights: YYYY-MM-DD
FormatISO(day) ==
    Fmt04(Year) \o <<"-">> \o Fmt02(MonthOf(day)) \o <<"-">> \o Fmt02(DayOfMonth(day))

RECURSIVE DigitsValue(_)
\* int() of a string of digits
DigitsValue(s) ==
    IF s = <<>> THEN 0
    ELSE DigitsValue(SubSeq(s, 1, Len(s) - 1)) * 10 + DigitValue(s[Len(s)])

\* the three fields of a text split at its two "-", or <<>> when the text
\* is not two or three runs of digits of the lengths %d-%m-%Y takes
DateFields(text) ==
    LET dashes == {i \in 1..Len(text) : text[i] = "-"}
    IN  IF Cardinality(dashes) # 2 THEN <<>>
        ELSE LET d1 == CHOOSE i \in dashes : \A j \in dashes : i <= j
                 d2 == CHOOSE i \in dashes : \A j \in dashes : i >= j
                 f1 == SubSeq(text, 1, d1 - 1)
                 f2 == SubSeq(text, d1 + 1, d2 - 1)
                 f3 == SubSeq(text, d2 + 1, Len(text))
             IN  IF /\ Len(f1) \in {1, 2} /\ Len(f2) \in {1, 2} /\ Len(f3) = 4
                    /\ \A i \in 1..Len(f1) : IsDigit(f1[i])
                    /\ \A i \in 1..Len(f2) : IsDigit(f2[i])
                    /\ \A i \in 1..Len(f3) : IsDigit(f3[i])
                 THEN <<DigitsValue(f1), DigitsValue(f2), DigitsValue(f3)>>
                 ELSE <<>>

\* the text matches format='%d-%m-%Y' and names a date of the calendar
DateParses(text) ==
    LET f == DateFields(text)
    IN  /\ f # <<>>
        /\ f[3] = Year
        /\ f[2] \in 1..12
        /\ f[1] \in 1..DaysInMonth[f[2]]

\* pd.to_datetime(text, format='%d-%m-%Y') as a day number
ParseDMY(text) ==
    LET f == DateFields(text) IN DaysBeforeMonth(f[2]) + f[1] - 1

\* -------------------------------------------------------------- input file
\* an empty cell of the CSV file, NaN after read_csv; no text equals it
NaN == <<"NaN">>

All == <<"A","l","l">>
catDev == <<"D","e","v">>
catSupport == <<"S","u","p","p","o","r","t">>
catSickLeave == <<"S","i","c","k"," ","L","e","a","v","e">>
catAbsence == <<"A","B","S","E","N","C","E">>

Anna == <<"A","n","n","a">>
Bob == <<"B","o","b">>
Carol == <<"C","a","r","o","l">>
Apollo == <<"A","p","o","l","l","o">>
Zephyr == <<"Z","e","p","h","y","r">>
Acme == <<"A","c","m","e">>
Zenith == <<"Z","e","n","i","t","h">>

CsvRow(m, d, p, r, c, a, u) ==
    [Medewerker |-> m, Datum |-> FormatDMY(d), Project |-> p, Relatie |-> r,
     Categorie |-> c, Aantal |-> a, Uurtarief |-> u, Totaal |-> (a * u) \div 100]

\* The rows an uploaded CSV file is made of, in date order.  Days 7..13 are
\* the week of Monday 8 January 2024; day 6 is the Sunday before it and day
\* 14 the Monday after it.
SampleFile ==
    << CsvRow(Bob,    6, Zephyr, Zenith, catDev,       4000, 60),
       CsvRow(Anna,   7, Zephyr, Zenith, catDev,       1000, 50),
       CsvRow(Anna,   8, Apollo, Acme,   catDev,       3000, 50),
       CsvRow(Anna,   9, Apollo, Acme,   catSupport,    996, 40),
       CsvRow(Bob,   11, Zephyr, Zenith, catSickLeave,  800,  0),
       CsvRow(Bob,   13, Apollo, Acme,   catDev,       1250, 60),
       CsvRow(Carol, 14, Apollo, Zenith, catAbsence,    800,  0) >>

\* the i-th smallest element of a set of numbers
Nth(S, i) == CHOOSE x \in S : Cardinality({y \in S : y < x}) = i - 1

\* the rows of SampleFile at the positions in S, in file order
PickRows(S) == [i \in 1..Cardinality(S) |-> SampleFile[Nth(S, i)]]

\* every CSV file considered: 1..MaxRecords rows of the sample file
Files ==
    {PickRows(S) : S \in {T \in SUBSET (1..Len(SampleFile)) :
                            Cardinality(T) \in 1..MaxRecords}}

\* the exports of a period: 1..MaxRecords consecutive rows of the sample file
Exports ==
    {SubSeq(SampleFile, w[1], w[2]) :
        w \in {v \in (1..Len(SampleFile)) \X (1..Len(SampleFile)) :
                  v[1] <= v[2] /\ v[2] - v[1] < MaxRecords}}

\* the exports of MaxRecords consecutive rows
LongExports == {file \in Exports : Len(file) = MaxRecords}

\* --------------------------------------------------------------- load_data
\* Categorie.str.contains('Leave|Absence', case=False, na=False)
IsLeave(categorie) ==
    /\ categorie # NaN
    /\ \/ StrContains(StrLower(categorie), <<"l","e","a","v","e">>)
       \/ StrContains(StrLower(categorie), <<"a","b","s","e","n","c","e">>)

LoadRow(row) ==
    [Medewerker |-> row.Medewerker,
     Datum      |-> ToDatetime(ParseDMY(row.Datum)),
     Project    |-> row.Project,
     Relatie    |-> row.Relatie,
     Categorie  |-> row.Categorie,
     Aantal     |-> row.Aantal,
     Uurtarief  |-> row.Uurtarief,
     Totaal     |-> row.Totaal,
     Is_Weekend |-> Weekday(ParseDMY(row.Datum)) \in {5, 6},
     Is_Leave   |-> IsLeave(row.Categorie)]

\* pd.to_datetime raises ValueError on a text that does not match the format
load_data_raises(file) == \E i \in 1..Len(file) : ~DateParses(file[i].Datum)

\* the frame load_data returns for the rows of a CSV file it can parse; only
\* Projectleider and Projectnummer are filled in when missing (fillna)
load_data(file) == [i \in 1..Len(file) |-> LoadRow(file[i])]

\* ---------------------------------------------------------- column helpers
Rows(frame) == {frame[i] : i \in 1..Len(frame)}

\* the columns of the four multiselects, in the order the sidebar builds them
Columns == <<"Medewerker", "Project", "Relatie", "Categorie">>

\* df[column].unique()
Column(frame, column) == {r[column] : r \in Rows(frame)}

SetMin(S) == CHOOSE x \in S : \A y \in S : x <= y
SetMax(S) == CHOOSE x \in S : \A y \in S : x >= y

\* df['Datum'].min().date(), df['Datum'].max().date()
date_min(frame) == DtDate(SetMin({r.Datum : r \in Rows(frame)}))
date_max(frame) == DtDate(SetMax({r.Datum : r \in Rows(frame)}))

\* ----------------------------------------------------------- apply_filters
\* frame[mask]: the rows that pass, in their order
Mask(frame, Test(_)) == SelectSeq(frame, Test)

\* mutant: the end date is left out of the range
InDateRange_open_end(r, start_date, end_date) ==
    /\ DtDate(r.Datum) >= start_date
    /\ DtDate(r.Datum) < end_date

InDateRange(r, start_date, end_date) ==
    /\ DtDate(r.Datum) >= start_date
    /\ DtDate(r.Datum) <= end_date

\* mutant: 'All' is taken for a value like any other
Restricts_any_selection(selected) == selected # {}

\* 'All' not in selected and selected
Restricts(selected) == All \notin selected /\ selected # {}

\* the five steps of apply_filters, each a boolean mask on the frame
date_filter(frame, date_range) ==
    IF Len(date_range) = 2
    THEN LET Keep(r) == InDateRange(r, date_range[1], date_range[2])
         IN  Mask(frame, Keep)
    ELSE frame

employee_filter(frame, employees) ==
    IF Restricts(employees)
    THEN LET Keep(r) == r.Medewerker \in employees IN Mask(frame, Keep)
    ELSE frame

project_filter(frame, projects) ==
    IF Restricts(projects)
    THEN LET Keep(r) == r.Project \in projects IN Mask(frame, Keep)
    ELSE frame

client_filter(frame, clients) ==
    IF Restricts(clients)
    THEN LET Keep(r) == r.Relatie \in clients IN Mask(frame, Keep)
    ELSE frame

category_filter(frame, categories) ==
    IF Restricts(categories)
    THEN LET Keep(r) == r.Categorie \in categories IN Mask(frame, Keep)
    ELSE frame

\* mutant: the dimension filters form an elif chain, so only the first
\* restricting one is applied
apply_filters_elif(dataframe, date_range, employees, projects, clients, categories) ==
    LET dated == date_filter(dataframe, date_range)
    IN  IF Restricts(employees) THEN employee_filter(dated, employees)
        ELSE IF Restricts(projects) THEN project_filter(dated, projects)
        ELSE IF Restricts(clients) THEN client_filter(dated, clients)
        ELSE category_filter(dated, categories)

apply_filters(dataframe, date_range, employees, projects, clients, categories) ==
    category_filter(
        client_filter(
            project_filter(
                employee_filter(
                    date_filter(dataframe, date_range),
                    employees),
                projects),
            clients),
        categories)

\* ------------------------------------------------------- group-by and sort
\* the keys of frame.groupby(column), in groupby's (sorted) order
GroupKeys(keys) ==
    [i \in 1..Cardinality(keys) |->
        CHOOSE k \in keys : Cardinality({x \in keys : StrLess(x, k)}) = i - 1]

RECURSIVE SumAantal(_)
\* frame['Aantal'].sum()
SumAantal(frame) ==
    IF frame = <<>> THEN 0 ELSE Head(frame).Aantal + SumAantal(Tail(frame))

EmployeeRows(frame, emp) ==
    LET Keep(r) == r.Medewerker = emp IN Mask(frame, Keep)

\* the groups of groupby('Medewerker'): rows whose key is NaN are in none
Employees(frame) == {r.Medewerker : r \in Rows(frame)} \ {NaN}

\* round half to even of x / unit, as a multiple of unit
RoundTo(x, unit) ==
    LET q == x \div unit
        r == x % unit
    IN  IF 2 * r < unit THEN q * unit
        ELSE IF 2 * r > unit THEN (q + 1) * unit
        ELSE IF q % 2 = 0 THEN q * unit ELSE (q + 1) * unit

\* DataFrame.round(1): hundredths of an hour rounded to tenths
Round1(x) == RoundTo(x, 10)

\* the orders sort_values(ascending=False) may leave the rows in: any
\* arrangement with the keys non-increasing (the sort is not a stable one)
SortDescending(table, Key(_)) ==
    LET n == Len(table)
        perms == {p \in [1..n -> 1..n] :
                    /\ \A a, b \in 1..n : a # b => p[a] # p[b]
                    /\ \A a \in 1..(n - 1) : Key(table[p[a]]) >= Key(table[p[a + 1]])}
    IN  {[i \in 1..n |-> table[p[i]]] : p \in perms}

\* Series.head(n) / DataFrame.head(n)
HeadN(table, n) == SubSeq(table, 1, IF Len(table) < n THEN Len(table) ELSE n)

\* ----------------------------------------------------- get_last_week_dates
\* mutant: isoweekday() (Monday is 1) in place of weekday()
get_last_week_dates_iso(today) ==
    LET last_monday == AddDays(today, 0 - (Weekday(DtDate(today)) + 1 + 7))
        last_sunday == AddDays(last_monday, 6)
    IN  <<DtDate(last_monday), DtDate(last_sunday)>>

get_last_week_dates(today) ==
    LET last_monday == AddDays(today, 0 - (Weekday(DtDate(today)) + 7))
        last_sunday == AddDays(last_monday, 6)
    IN  <<DtDate(last_monday), DtDate(last_sunday)>>

\* ------------------------------------------- tab2: compliance monitoring
HoursPerWorkingDay == 8

\* mutant: Saturday counted as a working day
working_days_with_saturday(start_date, end_date) ==
    {d \in start_date..end_date : Weekday(d) <= 5}

\* [d for d in pd.date_range(start, end, freq='D') if d.weekday() < 5]
working_days(start_date, end_date) ==
    {d \in start_date..end_date : Weekday(d) < 5}

expected_hours_for(start_date, end_date) ==
    Cardinality(working_days(start_date, end_date)) * HoursPerWorkingDay * 100

\* filtered_df restricted to [last_week_start, last_week_end]
last_week_data(frame, start_date, end_date) ==
    LET Keep(r) == InDateRange(r, start_date, end_date) IN Mask(frame, Keep)

\* groupby('Medewerker').agg({'Aantal': 'sum', 'Is_Leave': 'any'}).round(1)
last_week_employee_hours(frame) ==
    LET keys == GroupKeys(Employees(frame))
    IN  [i \in 1..Len(keys) |->
            [Medewerker   |-> keys[i],
             Hours_Logged |-> Round1(SumAantal(EmployeeRows(frame, keys[i]))),
             Had_Leave    |-> \E r \in Rows(EmployeeRows(frame, keys[i])) : r.Is_Leave]]

\* rows with Hours Logged < expected_hours and Had Leave == False
IsIncomplete(row, expected_hours) ==
    row.Hours_Logged < expected_hours /\ row.Had_Leave = FALSE

incomplete_timesheets(table, expected_hours) ==
    LET Keep(row) == IsIncomplete(row, expected_hours) IN Mask(table, Keep)

WithHoursMissing(table, expected_hours) ==
    [i \in 1..Len(table) |->
        [Medewerker    |-> table[i].Medewerker,
         Hours_Logged  |-> table[i].Hours_Logged,
         Hours_Missing |-> expected_hours - table[i].Hours_Logged]]

\* what the compliance block can show for a filtered frame at a given time
ComplianceMonitor(frame, today) ==
    LET week     == get_last_week_dates(today)
        data     == last_week_data(frame, week[1], week[2])
        expected == expected_hours_for(week[1], week[2])
        hours    == last_week_employee_hours(data)
        flagged  == WithHoursMissing(incomplete_timesheets(hours, expected), expected)
        Missing(row) == row.Hours_Missing
    IN  {[rendered        |-> TRUE,
          last_week_start |-> week[1],
          last_week_end   |-> week[2],
          working_days    |-> Cardinality(working_days(week[1], week[2])),
          expected_hours  |-> expected,
          employee_hours  |-> hours,
          alert           |-> IF Len(flagged) > 0 THEN "warning" ELSE "success",
          incomplete_display |-> shown] : shown \in SortDescending(flagged, Missing)}

\* the block is not reached when an earlier tab raised
NotRendered == [rendered |-> FALSE]

\* tab1's overview takes idxmax() of the hours per category and per month,
\* which raises ValueError on an empty frame; the script stops there
Tab1Raises(frame) == frame = <<>>

Tabs(frame, today) ==
    IF Tab1Raises(frame) THEN {NotRendered} ELSE ComplianceMonitor(frame, today)

\* ---------------------------------------------------- SecureTimesheetChatbot
\* the keyword lists of analyze_query, in the order of its if/elif chain
employee_patterns ==
    << <<"w","h","o"," ","w","o","r","k","e","d">>,
       <<"t","o","p"," ","e","m","p","l","o","y","e","e">>,
       <<"m","o","s","t"," ","h","o","u","r","s">>,
       <<"b","e","s","t"," ","p","e","r","f","o","r","m","e","r">> >>
project_patterns ==
    << <<"p","r","o","j","e","c","t">>,
       <<"w","h","i","c","h"," ","p","r","o","j","e","c","t">>,
       <<"t","o","p"," ","p","r","o","j","e","c","t">> >>
time_period_patterns ==
    << <<"l","a","s","t"," ","w","e","e","k">>,
       <<"l","a","s","t"," ","m","o","n","t","h">>,
       <<"t","h","i","s"," ","m","o","n","t","h">>,
       <<"l","a","s","t"," ","q","u","a","r","t","e","r">> >>
compliance_patterns ==
    << <<"c","o","m","p","l","i","a","n","c","e">>,
       <<"m","i","s","s","i","n","g">>,
       <<"i","n","c","o","m","p","l","e","t","e">>,
       <<"n","o","t"," ","s","u","b","m","i","t","t","e","d">> >>
totals_patterns ==
    << <<"t","o","t","a","l">>,
       <<"s","u","m">>,
       <<"h","o","w"," ","m","u","c","h">>,
       <<"h","o","w"," ","m","a","n","y">> >>
revenue_patterns ==
    << <<"r","e","v","e","n","u","e">>,
       <<"m","o","n","e","y">>,
       <<"b","i","l","l","i","n","g">>,
       <<"c","o","s","t">> >>
trend_patterns ==
    << <<"t","r","e","n","d">>,
       <<"p","a","t","t","e","r","n">>,
       <<"i","n","c","r","e","a","s","e">>,
       <<"d","e","c","r","e","a","s","e">>,
       <<"g","r","o","w","t","h">> >>
client_patterns ==
    << <<"c","l","i","e","n","t">>,
       <<"c","u","s","t","o","m","e","r">>,
       <<"r","e","l","a","t","i","e">> >>
comparison_patterns ==
    << <<"c","o","m","p","a","r","e">>,
       <<"v","s">>,
       <<"v","e","r","s","u","s">>,
       <<"d","i","f","f","e","r","e","n","c","e">> >>

\* mutant: all() in place of any()
_contains_all_patterns(text, patterns) ==
    \A i \in 1..Len(patterns) : StrContains(text, patterns[i])

\* _contains_patterns: any(pattern in text for pattern in patterns)
_contains_patterns(text, patterns) ==
    \E i \in 1..Len(patterns) : StrContains(text, patterns[i])

\* round half to even to whole hours, as the format spec :.0f prints them
Fmt0(x) == RoundTo(x, 100) \div 100

\* a routine that raises instead of returning
Raised(error) == [kind |-> "exception", error |-> error]

\* mutant: the groupby result is not sorted by hours
_get_top_employees_unsorted(frame) ==
    LET keys == GroupKeys(Employees(frame))
        emp_hours == [i \in 1..Len(keys) |->
                        [Medewerker |-> keys[i],
                         Aantal     |-> SumAantal(EmployeeRows(frame, keys[i]))]]
    IN  IF keys = <<>> THEN {Raised("IndexError")} ELSE
        {[kind  |-> "top_employees",
          top_3 |-> [i \in 1..Len(HeadN(emp_hours, 3)) |->
                        [Medewerker |-> emp_hours[i].Medewerker,
                         hours      |-> Fmt0(emp_hours[i].Aantal)]],
          top_performer_hours |-> Fmt0(emp_hours[1].Aantal)]}

\* _get_top_employees: the responses it can build (one per order the sort
\* may leave tied employees in); top_3.iloc[0] raises on an empty frame
_get_top_employees(frame) ==
    LET keys == GroupKeys(Employees(frame))
        emp_hours == [i \in 1..Len(keys) |->
                        [Medewerker |-> keys[i],
                         Aantal     |-> SumAantal(EmployeeRows(frame, keys[i]))]]
        Hours(row) == row.Aantal
    IN  IF keys = <<>> THEN {Raised("IndexError")} ELSE
        {[kind  |-> "top_employees",
          top_3 |-> [i \in 1..Len(HeadN(sorted, 3)) |->
                        [Medewerker |-> sorted[i].Medewerker,
                         hours      |-> Fmt0(sorted[i].Aantal)]],
          top_performer_hours |-> Fmt0(sorted[1].Aantal)]
         : sorted \in SortDescending(emp_hours, Hours)}

WeeklyHoursAssumed == 35
TrailingDays == 7
ListedEmployees == 5

\* _check_compliance_issues
_check_compliance_issues(frame, today) ==
    LET last_week == AddDays(today, 0 - TrailingDays)
        Recent(r) == r.Datum >= last_week
        recent_data == Mask(frame, Recent)
        keys == GroupKeys(Employees(recent_data))
        weekly_hours == [i \in 1..Len(keys) |->
                           [Medewerker |-> keys[i],
                            Aantal     |-> SumAantal(EmployeeRows(recent_data, keys[i]))]]
        expected_hours == WeeklyHoursAssumed * 100
        Short(row) == row.Aantal < expected_hours
        incomplete == Mask(weekly_hours, Short)
        shown == HeadN(incomplete, ListedEmployees)
    IN  IF Len(recent_data) = 0
        THEN {[kind |-> "compliance_no_recent_data"]}
        ELSE {[kind       |-> "compliance",
               incomplete |-> Len(incomplete),
               listed     |-> [i \in 1..Len(shown) |->
                                 [Medewerker |-> shown[i].Medewerker,
                                  hours      |-> Fmt0(shown[i].Aantal),
                                  missing    |-> Fmt0(expected_hours - shown[i].Aantal)]],
               more       |-> IF Len(incomplete) > ListedEmployees
                              THEN Len(incomplete) - ListedEmployees ELSE 0,
               expected_hours |-> WeeklyHoursAssumed]}

\* mutant: the fallback answers with the totals text
_get_help_response_totals == [kind |-> "totals"]

\* _get_help_response: a fixed text
_get_help_response == [kind |-> "help"]

\* a float as an f-string prints it: a number, or nan, inf, -inf
Finite(v) == [text |-> "number", value |-> v]

NotANumber == [text |-> "nan", value |-> 0]

Infinite(sign) == [text |-> IF sign > 0 THEN "inf" ELSE "-inf", value |-> 0]

\* a / b rounded half to even to a whole number, for a >= 0 and b > 0
RoundDiv(a, b) ==
    LET q == a \div b
        r == a % b
    IN  IF 2 * r < b THEN q
        ELSE IF 2 * r > b THEN q + 1
        ELSE IF q % 2 = 0 THEN q ELSE q + 1

\* numpy float64 a / b * 100 printed with :.0f; division by zero gives nan
\* or inf and a RuntimeWarning, never an exception
PercentOf(a, b) ==
    IF b = 0 THEN (IF a = 0 THEN NotANumber ELSE Infinite(a))
    ELSE IF a >= 0 /\ b > 0 THEN Finite(RoundDiv(a * 100, b))
    ELSE IF a < 0 /\ b > 0 THEN Finite(0 - RoundDiv((0 - a) * 100, b))
    ELSE IF a >= 0 THEN Finite(0 - RoundDiv(a * 100, 0 - b))
    ELSE Finite(RoundDiv((0 - a) * 100, 0 - b))

RECURSIVE SumTotaal(_)
\* frame['Totaal'].sum()
SumTotaal(frame) ==
    IF frame = <<>> THEN 0 ELSE Head(frame).Totaal + SumTotaal(Tail(frame))

CategoryRows(frame, cat) ==
    LET Keep(r) == r.Categorie = cat IN Mask(frame, Keep)

\* the groups of groupby('Categorie')
Categories(frame) == {r.Categorie : r \in Rows(frame)} \ {NaN}

\* strftime('%B') of the dates of the frame: the groups of groupby('Month_Name')
MonthNames(frame) == {MonthOf(DtDate(r.Datum)) : r \in Rows(frame)}

\* the groups of groupby('Project') and of groupby('Relatie')
Projects(frame) == {r.Project : r \in Rows(frame)} \ {NaN}

Clients(frame) == {r.Relatie : r \in Rows(frame)} \ {NaN}

\* _get_project_insights: the heading and the number of projects; the loop
\* over the top three runs zero times on an empty frame
_get_project_insights(frame) ==
    {[kind |-> "project_insights",
      active_projects |-> Cardinality(Projects(frame))]}

LastWeekDays == 7
PeriodDays == 30

\* _get_time_period_analysis: the records of the last 7 days for a question
\* with 'last week', else of the last 30; a message when there are none;
\* idxmax raises when no record of the period names an employee
_get_time_period_analysis(frame, today, question) ==
    LET days == IF StrContains(question, <<"l","a","s","t"," ","w","e","e","k">>)
                THEN LastWeekDays ELSE PeriodDays
        start_date == AddDays(today, 0 - days)
        Recent(r) == r.Datum >= start_date
        period_data == Mask(frame, Recent)
    IN  IF Len(period_data) = 0
        THEN {[kind |-> "time_period_no_data"]}
        ELSE IF Employees(period_data) = {}
        THEN {Raised("ValueError")}
        ELSE {[kind |-> "time_period_analysis",
               total_hours |-> Fmt0(SumAantal(period_data)),
               active_employees |-> Cardinality(Employees(period_data))]}

\* _get_totals: Datum.min() of an empty frame is NaT, and NaT.strftime raises
_get_totals(frame) ==
    IF frame = <<>> THEN {Raised("ValueError")}
    ELSE {[kind |-> "totals", total_hours |-> Fmt0(SumAantal(frame)),
           total_revenue |-> SumTotaal(frame)]}

\* _get_revenue_insights: the three categories with the most revenue, each
\* with its share of revenue_by_category.sum(), in one of the orders the
\* sort may leave them in
_get_revenue_insights(frame) ==
    LET keys == GroupKeys(Categories(frame))
        revenue_by_category ==
            [i \in 1..Len(keys) |->
                [Categorie |-> keys[i],
                 Totaal    |-> SumTotaal(CategoryRows(frame, keys[i]))]]
        total == SumTotaal(revenue_by_category)
        Revenue(row) == row.Totaal
    IN  {[kind |-> "revenue_insights",
          by_category |-> [i \in 1..Len(HeadN(sorted, 3)) |->
                             [Categorie |-> sorted[i].Categorie,
                              revenue   |-> sorted[i].Totaal,
                              pct       |-> PercentOf(sorted[i].Totaal, total)]]]
         : sorted \in SortDescending(revenue_by_category, Revenue)}

\* the months in the order of their English names (April, August, December,
\* February, January, July, June, March, May, November, October, September):
\* the order of the groups of groupby('Month_Name')
MonthsByName == <<4, 8, 12, 2, 1, 7, 6, 3, 5, 11, 10, 9>>

MonthRows(frame, month) ==
    LET Keep(r) == MonthOf(DtDate(r.Datum)) = month IN Mask(frame, Keep)

\* frame.groupby('Month_Name')['Aantal'].sum(): one row per month of the
\* frame, in the order of the month names
monthly_hours(frame) ==
    LET InFrame(m) == m \in MonthNames(frame)
        months == SelectSeq(MonthsByName, InFrame)
    IN  [i \in 1..Len(months) |->
            [Month_Name |-> months[i],
             Aantal     |-> SumAantal(MonthRows(frame, months[i]))]]

\* series.tail(n)
TailN(series, n) ==
    IF Len(series) <= n THEN series
    ELSE SubSeq(series, Len(series) - n + 1, Len(series))

\* idxmax() and idxmin(): the label of the first row with the largest, the
\* smallest, value
idxmax(series) ==
    LET i == CHOOSE i \in 1..Len(series) :
                 /\ \A j \in 1..Len(series) : series[j].Aantal <= series[i].Aantal
                 /\ \A j \in 1..(i - 1) : series[j].Aantal < series[i].Aantal
    IN  series[i].Month_Name

idxmin(series) ==
    LET i == CHOOSE i \in 1..Len(series) :
                 /\ \A j \in 1..Len(series) : series[j].Aantal >= series[i].Aantal
                 /\ \A j \in 1..(i - 1) : series[j].Aantal > series[i].Aantal
    IN  series[i].Month_Name

\* the trend line: the mean of the last three rows against the mean of the
\* first three (both are means of min(3, rows) values, so the sums compare)
TrendOf(series) ==
    LET recent  == SumAantal(TailN(series, 3))
        earlier == SumAantal(HeadN(series, 3))
    IN  IF 10 * recent > 11 * earlier THEN "increasing"
        ELSE IF 10 * recent < 9 * earlier THEN "decreasing"
        ELSE "stable"

\* _analyze_trends: that there are too few months, or the peak month, the
\* lowest month, the variation between them and the trend line
_analyze_trends(frame) ==
    LET series == monthly_hours(frame)
    IN  IF Len(series) < 2
        THEN {[kind |-> "trend_needs_more_periods"]}
        ELSE {[kind |-> "trend_analysis",
               peak_month |-> idxmax(series),
               peak_hours |-> Fmt0(SumAantal(MonthRows(frame, idxmax(series)))),
               low_month  |-> idxmin(series),
               low_hours  |-> Fmt0(SumAantal(MonthRows(frame, idxmin(series)))),
               variance   |-> PercentOf(
                   (SumAantal(MonthRows(frame, idxmax(series)))
                      - SumAantal(MonthRows(frame, idxmin(series)))) * Len(series),
                   SumAantal(series)),
               trend |-> TrendOf(series)]}

\* _get_client_insights: the heading and the number of clients
_get_client_insights(frame) ==
    {[kind |-> "client_insights",
      total_clients |-> Cardinality(Clients(frame))]}

\* _compare_periods: the hours of the two halves of the frame in date order
\* and the change between them, which is nan or inf when the first half
\* has no hours
_compare_periods(frame) ==
    LET Date(r) == 0 - r.Datum
        mid_point == Len(frame) \div 2
    IN  {[kind |-> "period_comparison",
          first_hours  |-> Fmt0(SumAantal(SubSeq(data_sorted, 1, mid_point))),
          second_hours |-> Fmt0(SumAantal(SubSeq(data_sorted, mid_point + 1,
                                                 Len(frame)))),
          change |-> PercentOf(
              SumAantal(SubSeq(data_sorted, mid_point + 1, Len(frame)))
                - SumAantal(SubSeq(data_sorted, 1, mid_point)),
              SumAantal(SubSeq(data_sorted, 1, mid_point)))]
         : data_sorted \in SortDescending(frame, Date)}

\* analyze_query: the if/elif chain.  A result names the keyword lists that
\* were tested, in order, the routine that was called and what it returned.
Outcome(tested, handler, responses) ==
    {[tested |-> tested, handler |-> handler, response |-> r] : r \in responses}

analyze_query(frame, today, user_question) ==
    LET question == StrStrip(StrLower(user_question))
    IN  IF _contains_patterns(question, employee_patterns)
        THEN Outcome(<<"employee">>, "_get_top_employees",
                     _get_top_employees(frame))
        ELSE IF _contains_patterns(question, project_patterns)
        THEN Outcome(<<"employee", "project">>, "_get_project_insights",
                     _get_project_insights(frame))
        ELSE IF _contains_patterns(question, time_period_patterns)
        THEN Outcome(<<"employee", "project", "time_period">>,
                     "_get_time_period_analysis",
                     _get_time_period_analysis(frame, today, question))
        ELSE IF _contains_patterns(question, compliance_patterns)
        THEN Outcome(<<"employee", "project", "time_period", "compliance">>,
                     "_check_compliance_issues",
                     _check_compliance_issues(frame, today))
        ELSE IF _contains_patterns(question, totals_patterns)
        THEN Outcome(<<"employee", "project", "time_period", "compliance",
                       "totals">>,
                     "_get_totals", _get_totals(frame))
        ELSE IF _contains_patterns(question, revenue_patterns)
        THEN Outcome(<<"employee", "project", "time_period", "compliance",
                       "totals", "revenue">>,
                     "_get_revenue_insights", _get_revenue_insights(frame))
        ELSE IF _contains_patterns(question, trend_patterns)
        THEN Outcome(<<"employee", "project", "time_period", "compliance",
                       "totals", "revenue", "trend">>,
                     "_analyze_trends", _analyze_trends(frame))
        ELSE IF _contains_patterns(question, client_patterns)
        THEN Outcome(<<"employee", "project", "time_period", "compliance",
                       "totals", "revenue", "trend", "client">>,
                     "_get_client_insights", _get_client_insights(frame))
        ELSE IF _contains_patterns(question, comparison_patterns)
        THEN Outcome(<<"employee", "project", "time_period", "compliance",
                       "totals", "revenue", "trend", "client", "comparison">>,
                     "_compare_periods", _compare_periods(frame))
        ELSE Outcome(<<"employee", "project", "time_period", "compliance",
                       "totals", "revenue", "trend", "client", "comparison">>,
                     "_get_help_response", {_get_help_response})

\* --------------------------------------------------------------- questions
QWhoWorkedMost == <<"W","h","o"," ","w","o","r","k","e","d"," ","t","h","e"," ","m","o","s","t"," ","h","o","u","r","s","?">>
QCheckCompliance == <<"C","h","e","c","k"," ","c","o","m","p","l","i","a","n","c","e"," ","i","s","s","u","e","s">>
QUnknown == <<"a","s","d","f","q","w","e","r","t","y">>

\* the example questions of the help text
HelpExamples ==
    { <<"W","h","o"," ","w","o","r","k","e","d"," ","t","h","e"," ","m","o","s","t"," ","h","o","u","r","s","?">>,
      <<"S","h","o","w"," ","m","e"," ","t","o","p"," ","e","m","p","l","o","y","e","e","s">>,
      <<"W","h","o"," ","a","r","e"," ","t","h","e"," ","b","e","s","t"," ","p","e","r","f","o","r","m","e","r","s","?">>,
      <<"W","h","i","c","h"," ","p","r","o","j","e","c","t","s"," ","h","a","v","e"," ","t","h","e"," ","m","o","s","t"," ","h","o","u","r","s","?">>,
      <<"S","h","o","w"," ","m","e"," ","p","r","o","j","e","c","t"," ","i","n","s","i","g","h","t","s">>,
      <<"W","h","a","t"," ","a","r","e"," ","o","u","r"," ","b","i","g","g","e","s","t"," ","p","r","o","j","e","c","t","s","?">>,
      <<"W","h","a","t"," ","h","a","p","p","e","n","e","d"," ","l","a","s","t"," ","w","e","e","k","?">>,
      <<"S","h","o","w"," ","m","e"," ","l","a","s","t"," ","m","o","n","t","h","'","s"," ","d","a","t","a">>,
      <<"A","n","a","l","y","z","e"," ","l","a","s","t"," ","q","u","a","r","t","e","r">>,
      <<"C","h","e","c","k"," ","c","o","m","p","l","i","a","n","c","e"," ","i","s","s","u","e","s">>,
      <<"W","h","o"," ","h","a","s"," ","i","n","c","o","m","p","l","e","t","e"," ","t","i","m","e","s","h","e","e","t","s","?">>,
      <<"S","h","o","w"," ","m","i","s","s","i","n","g"," ","e","n","t","r","i","e","s">>,
      <<"W","h","a","t","'","s"," ","o","u","r"," ","t","o","t","a","l"," ","r","e","v","e","n","u","e","?">>,
      <<"S","h","o","w"," ","m","e"," ","r","e","v","e","n","u","e"," ","b","y"," ","c","l","i","e","n","t">>,
      <<"R","e","v","e","n","u","e"," ","t","r","e","n","d","s">>,
      <<"A","n","a","l","y","z","e"," ","t","r","e","n","d","s">>,
      <<"C","o","m","p","a","r","e"," ","t","i","m","e"," ","p","e","r","i","o","d","s">>,
      <<"W","h","a","t"," ","a","r","e"," ","t","h","e"," ","p","a","t","t","e","r","n","s","?">> }

\* no keyword; blanks only; mixed case and padding; keywords inside words
OtherQuestions ==
    { <<"a","s","d","f","q","w","e","r","t","y">>,
      <<" "," "," ">>,
      <<"h","e","l","l","o"," ","t","h","e","r","e">>,
      <<" "," ","W","H","O"," ","W","O","R","K","E","D"," ","t","h","e"," ","M","o","s","t"," ","H","o","u","r","s"," "," ">>,
      <<"S","u","m","m","a","r","y">>,
      <<"C","u","s","t","o","m","e","r","s">>,
      <<"T","V","s">> }

CategoryPatterns ==
    <<employee_patterns, project_patterns, time_period_patterns,
      compliance_patterns, totals_patterns, revenue_patterns, trend_patterns,
      client_patterns, comparison_patterns>>

\* every keyword on its own
KeywordQuestions ==
    UNION {{CategoryPatterns[c][i] : i \in 1..Len(CategoryPatterns[c])}
           : c \in 1..Len(CategoryPatterns)}

\* two keywords of two categories in one question, in both orders
PairQuestions ==
    {CategoryPatterns[a][Len(CategoryPatterns[a])] \o <<" ">>
        \o CategoryPatterns[b][Len(CategoryPatterns[b])]
     : a, b \in 1..Len(CategoryPatterns)}

\* what the user may type into the chat input; <<>> is the empty input
Questions ==
    HelpExamples \cup OtherQuestions \cup KeywordQuestions \cup PairQuestions
        \cup {<<>>}

\* the questions asked in a session that also moves the clock
SessionQuestions == {QWhoWorkedMost, QCheckCompliance, QUnknown}

\* --------------------------------------------------------------- variables
VARIABLES
    uploaded_file,          \* what st.file_uploader holds: a CSV file or none
    bundled_file,           \* 'Detailweergaveuren (5).csv' in the working directory
    page,                   \* how the last run of the script ended, and its downloads
    df,                     \* the loaded data frame: a sequence of rows
    now,                    \* datetime.now() as the last run of the script read it
    selected_date_range,    \* sidebar date_input: a tuple of 1 or 2 dates
    selected_employees,     \* sidebar multiselects: the set of chosen options
    selected_projects,
    selected_clients,
    selected_categories,
    filtered_df,            \* apply_filters(df) of the last run
    compliance,             \* what tab2's compliance block showed in the last run
    secure_chatbot,         \* st.session_state.secure_chatbot
    secure_chat_history,    \* st.session_state.secure_chat_history
    last_query,             \* the last analyze_query call: what it tested and called
    drill_down_active,      \* st.session_state.drill_down_active
    drill_down_type,        \* st.session_state.drill_down_type: "none" is None
    drill_down_value,       \* st.session_state.drill_down_value
    time_period,            \* st.session_state.time_period: "none" is None
    exclude_zero_hours      \* tab5's checkbox "Exclude Zero Hours"

sidebar == <<selected_date_range, selected_employees, selected_projects,
             selected_clients, selected_categories>>

chat == <<secure_chat_history, last_query>>

source == <<uploaded_file, bundled_file>>

drill_down == <<drill_down_active, drill_down_type, drill_down_value>>

navigation == <<drill_down, time_period, exclude_zero_hours>>

vars == <<source, page, df, now, sidebar, filtered_df, compliance,
          secure_chatbot, chat, navigation>>

\* Python's None as the value of a selectbox without options
None == <<"None">>

\* tab1 and tab2 before any of their buttons was clicked
NavigationStart ==
    /\ drill_down_active = FALSE
    /\ drill_down_type = "none"
    /\ drill_down_value = None
    /\ time_period = "none"
    /\ exclude_zero_hours = FALSE

NoQuery == [question |-> <<>>, asked_at |-> 0, tested |-> <<>>, handler |-> "none"]

\* ------------------------------------------------------- the sidebar widgets
\* date_input(value=(date_min, date_max), min_value=date_min, max_value=date_max):
\* a click on a day starts a new range (a tuple of one date), a second click
\* on that day or a later one completes it.  The user clicks on days that
\* have a record.
DateRangeChoices(frame, current) ==
    LET days == {DtDate(r.Datum) : r \in Rows(frame)}
    IN  {<<s>> : s \in days}
          \cup (IF Len(current) = 1
                THEN {<<current[1], e>> : e \in {d \in days : d >= current[1]}}
                ELSE {})

\* multiselect(['All'] + sorted(df[column].unique().tolist()), default=['All']):
\* a click adds one option to the selection or removes one from it
MultiselectChoices(values, current) ==
    {current \cup {o} : o \in ({All} \cup values) \ current}
      \cup {current \ {o} : o \in current}

\* ------------------------------------------------------------ one script run
\* a CSV file with its rows, and no file
Csv(rows) == [present |-> TRUE, rows |-> rows]

NoFile == [present |-> FALSE, rows |-> <<>>]

\* load_data reads the uploaded file, or the bundled one when nothing is
\* uploaded
SourceFile(uploaded, bundled) == IF uploaded.present THEN uploaded ELSE bundled

\* to_csv of the rows of a frame, the dates written by strftime('%d-%m-%Y')
\* (tab6 formats the column before it exports)
ExportDMY(frame) ==
    [i \in 1..Len(frame) |->
        [Medewerker |-> frame[i].Medewerker,
         Datum      |-> FormatDMY(DtDate(frame[i].Datum)),
         Project    |-> frame[i].Project,
         Relatie    |-> frame[i].Relatie,
         Categorie  |-> frame[i].Categorie,
         Aantal     |-> frame[i].Aantal,
         Uurtarief  |-> frame[i].Uurtarief,
         Totaal     |-> frame[i].Totaal]]

\* to_csv of the rows of a frame whose Datum is still datetime64 (tab5
\* formats a copy for display and exports the frame itself)
ExportISO(frame) ==
    [i \in 1..Len(frame) |->
        [Medewerker |-> frame[i].Medewerker,
         Datum      |-> FormatISO(DtDate(frame[i].Datum)),
         Project    |-> frame[i].Project,
         Relatie    |-> frame[i].Relatie,
         Categorie  |-> frame[i].Categorie,
         Aantal     |-> frame[i].Aantal,
         Uurtarief  |-> frame[i].Uurtarief,
         Totaal     |-> frame[i].Totaal]]

\* tab6: the download button is built in every run, with no search term
Tab6Download(frame) ==
    [button |-> "Download filtered data as CSV", exported |-> frame,
     csv |-> ExportDMY(frame)]

\* tab5: the download button is built in the run that follows a click on
\* "Download Filtered Data"; the advanced inputs are at their defaults
Tab5Download(frame) ==
    [button |-> "Download CSV", exported |-> frame, csv |-> ExportISO(frame)]

\* the script ran to its last line
Dashboard(downloads) ==
    [status |-> "dashboard", at |-> "end", error |-> "none",
     downloads |-> downloads]

\* st.stop() after the "Getting Started" box
Stopped ==
    [status |-> "stopped", at |-> "load gate", error |-> "none", downloads |-> {}]

\* an exception left the script; Streamlit shows its traceback
Crashed(at, error) ==
    [status |-> "exception", at |-> at, error |-> error, downloads |-> {}]

\* df = load_data(uploaded_file) of a run whose file has not changed
Reload == df' = load_data(SourceFile(uploaded_file', bundled_file').rows)

\* tab5's advanced filters with the number inputs and the search box as the
\* script sets them (minimum 0, maximum the largest value of the filtered
\* frame, no search term) and the checkbox as the user left it
advanced_filtered_df(frame, exclude) ==
    LET InBounds(r) ==
            /\ r.Aantal >= 0
            /\ r.Aantal <= SetMax({x.Aantal : x \in Rows(frame)})
            /\ r.Uurtarief >= 0
            /\ r.Uurtarief <= SetMax({x.Uurtarief : x \in Rows(frame)})
            /\ exclude => r.Aantal > 0
    IN  Mask(frame, InBounds)

\* number_input(min_value=0.0, value=float(filtered_df['Aantal'].max()))
\* raises when the value is below the minimum
Tab5Raises(frame) ==
    frame # <<>> /\ SetMax({x.Aantal : x \in Rows(frame)}) < 0

\* how a run that got past tab1 can end: at its last line, or in tab5.  The
\* maximum of an empty frame is nan, and what number_input does with
\* value=nan is not fixed by the script: both outcomes are allowed.
AfterTab1(frame, exclude, download_clicked) ==
    LET done == Dashboard({Tab6Download(frame)}
                    \cup (IF download_clicked
                          THEN {Tab5Download(advanced_filtered_df(frame, exclude))}
                          ELSE {}))
    IN  IF Tab5Raises(frame) THEN {Crashed("tab5", "StreamlitAPIException")}
        ELSE IF frame = <<>>
        THEN {done, Crashed("tab5", "StreamlitAPIException")}
        ELSE {done}

\* the tabs, for the filtered frame of this run; tab1 shows the drill-down
\* view in place of the overview when one is active
RenderTabs(download_clicked) ==
    /\ compliance' \in IF drill_down_active'
                        THEN ComplianceMonitor(filtered_df', now')
                        ELSE Tabs(filtered_df', now')
    /\ page' \in IF compliance'.rendered
                  THEN AfterTab1(filtered_df', exclude_zero_hours',
                                 download_clicked)
                  ELSE {Crashed("tab1", "ValueError")}

\* mutant: the script assigns the filtered frame to df itself
Render_overwrites_df ==
    /\ df' = apply_filters(load_data(SourceFile(uploaded_file', bundled_file').rows),
                           selected_date_range', selected_employees',
                           selected_projects', selected_clients',
                           selected_categories')
    /\ filtered_df' = df'
    /\ RenderTabs(FALSE)

\* the script from load_data on, for the widget values and the clock of
\* this run (the primed variables)
Render ==
    /\ Reload
    /\ filtered_df' = apply_filters(df', selected_date_range', selected_employees',
                                    selected_projects', selected_clients',
                                    selected_categories')
    /\ RenderTabs(FALSE)

\* the first run of the script on an uploaded file, up to the chat
FirstRun(files) ==
    /\ uploaded_file \in {Csv(file) : file \in files}
    /\ bundled_file = NoFile
    /\ df = load_data(uploaded_file.rows)
    /\ now = ToDatetime(FirstNowDay)
    /\ selected_date_range = <<date_min(df), date_max(df)>>
    /\ selected_employees = {All}
    /\ selected_projects = {All}
    /\ selected_clients = {All}
    /\ selected_categories = {All}
    /\ filtered_df = apply_filters(df, selected_date_range, selected_employees,
                                   selected_projects, selected_clients,
                                   selected_categories)
    /\ compliance \in Tabs(filtered_df, now)
    /\ page = IF compliance.rendered
              THEN Dashboard({Tab6Download(filtered_df)})
              ELSE Crashed("tab1", "ValueError")
    /\ secure_chat_history = <<>>
    /\ last_query = NoQuery
    /\ NavigationStart

\* the state after the first run of the script on an uploaded file
InitOn(files) ==
    /\ FirstRun(files)
    /\ secure_chatbot = [df |-> filtered_df]

Init == InitOn(Files)

InitExport == InitOn(Exports)

\* ------------------------------------------------------- group-by then sum
RECURSIVE SumOfGroups(_, _, _)
\* frame.groupby(column)['Aantal'].sum().sum() over the given group keys
SumOfGroups(frame, column, keys) ==
    IF keys = <<>> THEN 0
    ELSE LET group == SelectSeq(frame, LAMBDA r : r[column] = Head(keys))
         IN  SumAantal(group) + SumOfGroups(frame, column, Tail(keys))

\* groupby drops the records whose key is NaN (dropna=True, the default)
GroupedHours(frame, column) ==
    SumOfGroups(frame, column, GroupKeys(Column(frame, column) \ {NaN}))

RECURSIVE SumOfMonths(_, _)
\* frame.groupby('Month_Name')['Aantal'].sum().sum()
SumOfMonths(frame, months) ==
    IF months = {} THEN 0
    ELSE LET month == SetMin(months)
             group == SelectSeq(frame, LAMBDA r : MonthOf(DtDate(r.Datum)) = month)
         IN  SumAantal(group) + SumOfMonths(frame, months \ {month})

MonthlyHours(frame) == SumOfMonths(frame, MonthNames(frame))

\* ------------------------------------------------------ the summary tables
RECURSIVE SortValues(_, _)
\* sort_values(column, ascending=False) of a table with one row per group:
\* every arrangement with the column non-increasing
SortValues(rows, column) ==
    IF rows = {} THEN {<<>>}
    ELSE UNION {{<<r>> \o rest : rest \in SortValues(rows \ {r}, column)}
                : r \in {x \in rows : \A y \in rows : x[column] >= y[column]}}

\* groupby(column).agg({'Aantal': 'sum', 'Totaal': 'sum', ...}): one row per
\* group, named by its key
Summary(frame, column) ==
    {[Name          |-> key,
      Total_Hours   |-> SumAantal(SelectSeq(frame, LAMBDA r : r[column] = key)),
      Total_Revenue |-> SumTotaal(SelectSeq(frame, LAMBDA r : r[column] = key))]
     : key \in Column(frame, column) \ {NaN}}

\* mutant: the employee summary is left in groupby's order
employee_summary_by_name(frame) ==
    LET rows == Summary(frame, "Medewerker")
        keys == GroupKeys({row.Name : row \in rows})
    IN  {[i \in 1..Len(keys) |-> CHOOSE row \in rows : row.Name = keys[i]]}

\* tab2: employee_summary.sort_values('Total Hours', ascending=False)
employee_summary(frame) == SortValues(Summary(frame, "Medewerker"), "Total_Hours")

\* tab3: project_summary.sort_values('Total Hours', ascending=False)
project_summary(frame) == SortValues(Summary(frame, "Project"), "Total_Hours")

\* tab4: client_summary.sort_values('Total Revenue', ascending=False)
client_summary(frame) == SortValues(Summary(frame, "Relatie"), "Total_Revenue")

\* the sizes of the Top-N views: the chatbot's lists, tab4's pie, the three
\* bar charts of tab2..tab4, the employees of a period or of a drill-down
TopChat == 3
TopPie == 8
TopBars == 10
TopPeriod == 15

\* the Top-N views the tabs cut out of a sorted summary, by the column each
\* summary is sorted on
top_employees(summary) == HeadN(summary, TopBars)

top_projects(summary) == HeadN(summary, TopBars)

top_clients(summary) == HeadN(summary, TopBars)

pie_clients(summary) == HeadN(summary, TopPie)

\* the top of the period chart and of a drill-down's employee chart
period_employees(summary) == HeadN(summary, TopPeriod)

\* the chatbot's lists of three
top_3(summary) == HeadN(summary, TopChat)

\* --------------------------------------------------------- sidebar changes
\* how many of the five widgets are off their default
OffDefault(frame, date_range, employees, projects, clients, categories) ==
    (IF date_range # <<date_min(frame), date_max(frame)>> THEN 1 ELSE 0)
      + (IF employees # {All} THEN 1 ELSE 0)
      + (IF projects # {All} THEN 1 ELSE 0)
      + (IF clients # {All} THEN 1 ELSE 0)
      + (IF categories # {All} THEN 1 ELSE 0)

SidebarChange ==
    /\ OffDefault(df, selected_date_range', selected_employees',
                  selected_projects', selected_clients',
                  selected_categories') <= MaxChanged
    /\ UNCHANGED <<source, now, secure_chatbot, chat, navigation>>

ChangeDateRange ==
    /\ \E r \in DateRangeChoices(df, selected_date_range) :
          /\ r # selected_date_range
          /\ selected_date_range' = r
    /\ UNCHANGED <<selected_employees, selected_projects, selected_clients,
                   selected_categories>>
    /\ SidebarChange
    /\ Render

ChangeEmployees ==
    /\ \E s \in MultiselectChoices({r.Medewerker : r \in Rows(df)}, selected_employees) :
          /\ s # selected_employees
          /\ selected_employees' = s
    /\ UNCHANGED <<selected_date_range, selected_projects, selected_clients,
                   selected_categories>>
    /\ SidebarChange
    /\ Render

ChangeProjects ==
    /\ \E s \in MultiselectChoices({r.Project : r \in Rows(df)}, selected_projects) :
          /\ s # selected_projects
          /\ selected_projects' = s
    /\ UNCHANGED <<selected_date_range, selected_employees, selected_clients,
                   selected_categories>>
    /\ SidebarChange
    /\ Render

ChangeClients ==
    /\ \E s \in MultiselectChoices({r.Relatie : r \in Rows(df)}, selected_clients) :
          /\ s # selected_clients
          /\ selected_clients' = s
    /\ UNCHANGED <<selected_date_range, selected_employees, selected_projects,
                   selected_categories>>
    /\ SidebarChange
    /\ Render

ChangeCategories ==
    /\ \E s \in MultiselectChoices({r.Categorie : r \in Rows(df)}, selected_categories) :
          /\ s # selected_categories
          /\ selected_categories' = s
    /\ UNCHANGED <<selected_date_range, selected_employees, selected_projects,
                   selected_clients>>
    /\ SidebarChange
    /\ Render

\* ------------------------------------------------------------ time passing
\* any interaction that changes nothing but is made one tick later
Refresh ==
    /\ now + 1 < ToDatetime(FirstNowDay + NowDays)
    /\ now' = now + 1
    /\ UNCHANGED <<source, sidebar, secure_chatbot, chat, navigation>>
    /\ Render

\* ----------------------------------------------------------------- the chat
\* "Ask" clicked with user_question in the text input
\* mutant: the log keeps the latest answer only
Respond_keeps_latest(question, tested, handler, responses) ==
    \E response \in responses :
        /\ last_query' = [question |-> question, asked_at |-> now,
                          tested |-> tested, handler |-> handler]
        /\ secure_chat_history' =
              <<[question  |-> question,
                 response  |-> response,
                 timestamp |-> now % TicksPerDay]>>
        /\ Render

\* the run in which a routine of the chatbot was called: its answer is
\* appended to the log and the script is run again (st.rerun); an exception
\* ends the run where it was raised
Respond(question, tested, handler, responses) ==
    \E response \in responses :
        /\ last_query' = [question |-> question,
                          asked_at |-> now,
                          tested   |-> tested,
                          handler  |-> handler]
        /\ IF response.kind = "exception"
           THEN /\ UNCHANGED secure_chat_history
                /\ Reload
                /\ filtered_df' = apply_filters(df', selected_date_range,
                        selected_employees, selected_projects,
                        selected_clients, selected_categories)
                /\ compliance' = NotRendered
                /\ page' = Crashed("chatbot", response.error)
           ELSE /\ secure_chat_history' =
                      Append(secure_chat_history,
                             [question  |-> question,
                              response  |-> response,
                              timestamp |-> now % TicksPerDay])
                /\ Render

\* "Ask" clicked with user_question in the text input, in a session of at
\* most cap chat interactions
AskWithin(cap, user_question) ==
    /\ Len(secure_chat_history) < cap
    /\ UNCHANGED <<source, now, sidebar, secure_chatbot, navigation>>
    /\ IF user_question = <<>>
       THEN /\ UNCHANGED chat
            /\ Render
       ELSE \E out \in analyze_query(secure_chatbot.df, now, user_question) :
              Respond(user_question, out.tested, out.handler, {out.response})

Ask(user_question) == AskWithin(MaxHistory, user_question)

\* the four quick-insight buttons: each calls one routine of the chatbot
\* and logs the answer under a fixed question
QuickTopLabel == <<"Q","u","i","c","k",":"," ","S","h","o","w"," ","t","o","p"," ","p","e","r","f","o","r","m","e","r","s">>
QuickComplianceLabel == <<"Q","u","i","c","k",":"," ","C","h","e","c","k"," ","c","o","m","p","l","i","a","n","c","e">>
QuickTrendsLabel == <<"Q","u","i","c","k",":"," ","A","n","a","l","y","z","e"," ","t","r","e","n","d","s">>
QuickRevenueLabel == <<"Q","u","i","c","k",":"," ","S","h","o","w"," ","r","e","v","e","n","u","e"," ","i","n","s","i","g","h","t","s">>

QuickLabels ==
    {QuickTopLabel, QuickComplianceLabel, QuickTrendsLabel, QuickRevenueLabel}

QuickButton(cap) ==
    /\ Len(secure_chat_history) < cap
    /\ UNCHANGED <<source, now, sidebar, secure_chatbot, navigation>>

QuickTopPerformers(cap) ==
    /\ QuickButton(cap)
    /\ Respond(QuickTopLabel, <<>>, "_get_top_employees",
               _get_top_employees(secure_chatbot.df))

QuickComplianceCheck(cap) ==
    /\ QuickButton(cap)
    /\ Respond(QuickComplianceLabel, <<>>, "_check_compliance_issues",
               _check_compliance_issues(secure_chatbot.df, now))

QuickTrendAnalysis(cap) ==
    /\ QuickButton(cap)
    /\ Respond(QuickTrendsLabel, <<>>, "_analyze_trends",
               _analyze_trends(secure_chatbot.df))

QuickRevenueInsights(cap) ==
    /\ QuickButton(cap)
    /\ Respond(QuickRevenueLabel, <<>>, "_get_revenue_insights",
               _get_revenue_insights(secure_chatbot.df))

\* tab5: "Download Filtered Data" clicked; the run that follows builds the
\* CSV and its download button
DownloadFilteredData ==
    /\ page.status = "dashboard"
    /\ UNCHANGED <<source, now, sidebar, secure_chatbot, chat, navigation>>
    /\ Reload
    /\ filtered_df' = apply_filters(df', selected_date_range, selected_employees,
                                    selected_projects, selected_clients,
                                    selected_categories)
    /\ RenderTabs(TRUE)

\* ------------------------------------------------------------ tab1: drill-down
\* strftime('%B'): the English month names
month_order ==
    << <<"J","a","n","u","a","r","y">>,
       <<"F","e","b","r","u","a","r","y">>,
       <<"M","a","r","c","h">>,
       <<"A","p","r","i","l">>,
       <<"M","a","y">>,
       <<"J","u","n","e">>,
       <<"J","u","l","y">>,
       <<"A","u","g","u","s","t">>,
       <<"S","e","p","t","e","m","b","e","r">>,
       <<"O","c","t","o","b","e","r">>,
       <<"N","o","v","e","m","b","e","r">>,
       <<"D","e","c","e","m","b","e","r">> >>

\* what st.selectbox returns: one of its options, or None when it has none
Selectbox(options) == IF options = {} THEN {None} ELSE options

\* the options of cat_select and of month_select in the overview
category_options(frame) == Categories(frame)

available_months(frame) == {month_order[m] : m \in MonthNames(frame)}

\* the run reached the tabs: tab1 is on the page
Tab1Drawn ==
    \/ page.status = "dashboard"
    \/ page.status = "exception" /\ page.at \in {"tab1", "tab5"}

\* st.rerun() with the widgets and the clock as they are
Rerun ==
    /\ UNCHANGED <<source, now, sidebar, secure_chatbot, chat>>
    /\ Render

\* the overview's button "Analyze <category>"; it stands above the lines of
\* the overview that raise on an empty frame
AnalyzeCategory ==
    /\ Tab1Drawn
    /\ ~drill_down_active
    /\ \E selected_cat \in Selectbox(category_options(filtered_df)) :
          /\ drill_down_active' = TRUE
          /\ drill_down_type' = "category"
          /\ drill_down_value' = selected_cat
    /\ UNCHANGED <<time_period, exclude_zero_hours>>
    /\ Rerun

\* the overview's button "Analyze <month>"
AnalyzeMonth ==
    /\ Tab1Drawn
    /\ ~drill_down_active
    /\ \E selected_month \in Selectbox(available_months(filtered_df)) :
          /\ drill_down_active' = TRUE
          /\ drill_down_type' = "month"
          /\ drill_down_value' = selected_month
    /\ UNCHANGED <<time_period, exclude_zero_hours>>
    /\ Rerun

\* "<- Back to Overview", drawn while a drill-down is active
BackToOverview ==
    /\ Tab1Drawn
    /\ drill_down_active
    /\ drill_down_active' = FALSE
    /\ drill_down_type' = "none"
    /\ drill_down_value' = None
    /\ UNCHANGED <<time_period, exclude_zero_hours>>
    /\ Rerun

\* the records the drill-down view shows
drill_data(frame, type, value) ==
    LET Keep(r) == IF type = "category" THEN r.Categorie = value
                   ELSE IF type = "month"
                   THEN month_order[MonthOf(DtDate(r.Datum))] = value
                   ELSE TRUE
    IN  Mask(frame, Keep)

\* ------------------------------------------------------- tab2: time periods
\* datetime(year, month, day).date() for this year and the year before
DateOf(year, month, day) ==
    IF year = Year THEN DaysBeforeMonth(month) + day - 1
    ELSE DaysBeforeMonth(month) - (IF month > 2 THEN 1 ELSE 0) + day - 1
            - (DaysBeforeMonth(12) + DaysInMonth[12] - 1)

get_last_month_dates(today) ==
    LET first_day_this_month == DateOf(Year, MonthOf(DtDate(today)), 1)
        last_day_last_month  == first_day_this_month - 1
        first_day_last_month ==
            IF last_day_last_month < 0 THEN DateOf(Year - 1, 12, 1)
            ELSE DateOf(Year, MonthOf(last_day_last_month), 1)
    IN  <<first_day_last_month, last_day_last_month>>

get_last_quarter_dates(today) ==
    LET current_quarter == ((MonthOf(DtDate(today)) - 1) \div 3) + 1
        quarter_start_month == (current_quarter - 2) * 3 + 1
    IN  IF current_quarter = 1
        THEN <<DateOf(Year - 1, 10, 1), DateOf(Year - 1, 12, 31)>>
        ELSE <<DateOf(Year, quarter_start_month, 1),
               DateOf(Year, quarter_start_month + 2, 1) - 1>>

get_last_year_dates(today) ==
    <<DateOf(Year - 1, 1, 1), DateOf(Year - 1, 12, 31)>>

Periods == {"last_week", "last_month", "last_quarter", "last_year"}

\* start_date, end_date of the period analysis
period_dates(period, today) ==
    CASE period = "last_week"    -> get_last_week_dates(today)
      [] period = "last_month"   -> get_last_month_dates(today)
      [] period = "last_quarter" -> get_last_quarter_dates(today)
      [] period = "last_year"    -> get_last_year_dates(today)

\* period_data: the records of the filtered frame dated in the period
period_data(frame, period, today) ==
    LET Keep(r) == InDateRange(r, period_dates(period, today)[1],
                               period_dates(period, today)[2])
    IN  Mask(frame, Keep)

\* tab2 is on the page
Tab2Drawn ==
    \/ page.status = "dashboard"
    \/ page.status = "exception" /\ page.at = "tab5"

\* one of the buttons "Last Week", "Last Month", "Last Quarter", "Last Year"
SelectPeriod ==
    /\ Tab2Drawn
    /\ \E period \in Periods :
          /\ period # time_period
          /\ time_period' = period
    /\ UNCHANGED <<drill_down, exclude_zero_hours>>
    /\ Rerun

\* ------------------------------------------------------ tab5: the checkbox
ToggleExcludeZeroHours ==
    /\ page.status = "dashboard"
    /\ exclude_zero_hours' = ~exclude_zero_hours
    /\ UNCHANGED <<drill_down, time_period>>
    /\ Rerun

AskAny == \E q \in Questions : Ask(q)

\* ------------------------------------------------------------- a new upload
\* sorted(df[column].unique().tolist()) compares NaN, a float, with text and
\* raises TypeError when the column holds both
SortedRaises(values) == NaN \in values /\ values # {NaN}

\* the first multiselect whose options cannot be sorted, or one past the last
FirstRaising(frame) ==
    LET raising == {c \in 1..Len(Columns) :
                       SortedRaises(Column(frame, Columns[c]))}
    IN  IF raising = {} THEN Len(Columns) + 1 ELSE SetMin(raising)

\* how many sidebar widgets the last run rendered: the date input, then the
\* multiselects up to the one that raised
WidgetsRendered ==
    IF page.at \in {"load gate", "load_data"} THEN 0
    ELSE IF page.at = "sidebar" THEN FirstRaising(df)
    ELSE 1 + Len(Columns)

\* session_state without the key 'secure_chatbot'
NoChatbot == [absent |-> TRUE]

\* the date input of a run on a new frame: a widget keeps its value when the
\* last run rendered it with the same value, min_value and max_value
DateInputOn(frame) ==
    IF /\ WidgetsRendered >= 1
       /\ <<date_min(df), date_max(df)>> = <<date_min(frame), date_max(frame)>>
    THEN selected_date_range
    ELSE <<date_min(frame), date_max(frame)>>

\* the c-th multiselect of a run on a new frame: built when no earlier one
\* raised; it keeps its value when the last run rendered it with the same
\* options
MultiselectOn(frame, c, current) ==
    IF /\ c < FirstRaising(frame)
       /\ WidgetsRendered >= 1 + c
       /\ Column(df, Columns[c]) = Column(frame, Columns[c])
    THEN current
    ELSE {All}

\* a run that ends before the sidebar: nothing is loaded and no widget is
\* rendered
NothingLoaded(outcome) ==
    /\ df' = <<>>
    /\ selected_date_range' = <<>>
    /\ selected_employees' = {All}
    /\ selected_projects' = {All}
    /\ selected_clients' = {All}
    /\ selected_categories' = {All}
    /\ filtered_df' = <<>>
    /\ compliance' = NotRendered
    /\ page' = outcome
    /\ UNCHANGED secure_chatbot

\* the whole script, for the files of this run (the primed variables)
Script ==
    LET file == SourceFile(uploaded_file', bundled_file')
    IN  IF ~file.present THEN NothingLoaded(Stopped)
        ELSE IF load_data_raises(file.rows)
        THEN NothingLoaded(Crashed("load_data", "ValueError"))
        ELSE /\ df' = load_data(file.rows)
             /\ selected_date_range' = DateInputOn(df')
             /\ selected_employees' = MultiselectOn(df', 1, selected_employees)
             /\ selected_projects' = MultiselectOn(df', 2, selected_projects)
             /\ selected_clients' = MultiselectOn(df', 3, selected_clients)
             /\ selected_categories' = MultiselectOn(df', 4, selected_categories)
             /\ IF FirstRaising(df') <= Len(Columns)
                THEN /\ filtered_df' = <<>>
                     /\ compliance' = NotRendered
                     /\ page' = Crashed("sidebar", "TypeError")
                     /\ UNCHANGED secure_chatbot
                ELSE /\ filtered_df' =
                          apply_filters(df', selected_date_range',
                                        selected_employees', selected_projects',
                                        selected_clients', selected_categories')
                     /\ secure_chatbot' = IF secure_chatbot = NoChatbot
                                          THEN [df |-> filtered_df']
                                          ELSE secure_chatbot
                     /\ RenderTabs(FALSE)

\* the file with one cell of its first row left empty
GapFile(file, column) ==
    [i \in 1..Len(file) |->
        IF i = 1 THEN [file[i] EXCEPT ![column] = NaN] ELSE file[i]]

\* the export of the first MaxRecords rows of the sample file
FirstExport == SubSeq(SampleFile, 1, MaxRecords)

\* what the user may put into the uploader: nothing, a long export, a long
\* export with an empty cell, the "Download CSV" file of an export
UploadChoices ==
    {NoFile}
      \cup {Csv(file) : file \in LongExports}
      \cup {Csv(GapFile(file, Columns[c])) :
                file \in LongExports, c \in 1..Len(Columns)}
      \cup {Csv(ExportISO(load_data(FirstExport)))}

\* the uploader is given another file, or emptied
Upload ==
    /\ \E file \in UploadChoices :
          /\ file # uploaded_file
          /\ uploaded_file' = file
    /\ UNCHANGED <<bundled_file, now, chat, navigation>>
    /\ Script

AskInSession == \E q \in SessionQuestions : Ask(q)

\* ------------------------------------------------------------ specifications
\* a session of sidebar changes
NextFilters ==
    \/ ChangeDateRange
    \/ ChangeEmployees
    \/ ChangeProjects
    \/ ChangeClients
    \/ ChangeCategories

SpecFilters == InitExport /\ [][NextFilters]_vars

\* a session in which time passes and the category filter is changed
NextCompliance ==
    \/ Refresh
    \/ ChangeCategories

SpecCompliance == Init /\ [][NextCompliance]_vars

\* a session in which time passes and questions are asked
NextChat ==
    \/ Refresh
    \/ AskInSession

SpecChat == Init /\ [][NextChat]_vars

\* a session of chat interactions and changes of the category filter
AskInLog == \E q \in SessionQuestions \cup {<<>>} : AskWithin(MaxLog, q)

QuickTopInLog == QuickTopPerformers(MaxLog)
QuickComplianceInLog == QuickComplianceCheck(MaxLog)
QuickTrendsInLog == QuickTrendAnalysis(MaxLog)
QuickRevenueInLog == QuickRevenueInsights(MaxLog)

NextSession ==
    \/ AskInLog
    \/ QuickTopInLog
    \/ QuickComplianceInLog
    \/ QuickTrendsInLog
    \/ QuickRevenueInLog
    \/ ChangeCategories

InitSession == InitOn(LongExports)

SpecSession == InitSession /\ [][NextSession]_vars

\* a session of every kind of interaction: changes of two sidebar filters,
\* a typed question, the quick-insight buttons, a download
QuickTop == QuickTopPerformers(MaxHistory)
QuickCompliance == QuickComplianceCheck(MaxHistory)
QuickTrends == QuickTrendAnalysis(MaxHistory)
QuickRevenue == QuickRevenueInsights(MaxHistory)

NextInteractions ==
    \/ ChangeEmployees
    \/ ChangeCategories
    \/ AskInSession
    \/ QuickTop
    \/ QuickCompliance
    \/ QuickTrends
    \/ QuickRevenue
    \/ DownloadFilteredData

InitInteractions == InitOn({FirstExport})

SpecInteractions == InitInteractions /\ [][NextInteractions]_vars

\* a session of uploads: the first visit has nothing uploaded, and the
\* bundled file is there or not
InitLoad ==
    /\ uploaded_file = NoFile
    /\ bundled_file \in {NoFile, Csv(FirstExport)}
    /\ now = ToDatetime(FirstNowDay)
    /\ secure_chat_history = <<>>
    /\ last_query = NoQuery
    /\ NavigationStart
    /\ IF bundled_file.present
       THEN /\ df = load_data(bundled_file.rows)
            /\ selected_date_range = <<date_min(df), date_max(df)>>
            /\ filtered_df = df
            /\ compliance \in Tabs(filtered_df, now)
            /\ page = Dashboard({Tab6Download(filtered_df)})
            /\ secure_chatbot = [df |-> filtered_df]
       ELSE /\ df = <<>>
            /\ selected_date_range = <<>>
            /\ filtered_df = <<>>
            /\ compliance = NotRendered
            /\ page = Stopped
            /\ secure_chatbot = NoChatbot
    /\ selected_employees = {All}
    /\ selected_projects = {All}
    /\ selected_clients = {All}
    /\ selected_categories = {All}

NextLoad == Upload

SpecLoad == InitLoad /\ [][NextLoad]_vars

\* a session in which time passes and questions are asked, on an export
\* that also holds hours booked ahead, for a day after the session
PlannedRow == CsvRow(Anna, FirstNowDay + NowDays + 2, Apollo, Acme, catDev, 4000, 50)

PlannedFiles == {Append(file, PlannedRow) : file \in Exports}

InitPlanned == InitOn(PlannedFiles)

NextPlanned ==
    \/ Refresh
    \/ AskInSession

SpecPlanned == InitPlanned /\ [][NextPlanned]_vars

\* one export, and questions typed into the chat input
InitTyped == InitOn({FirstExport})

NextTyped == AskAny

SpecTyped == InitTyped /\ [][NextTyped]_vars

\* exports of several months: for each month of the first TrendMonths, no
\* record or one record of 10 or of 40 hours, on the 15th
TrendMonths == 4

TrendRow(month, hours) ==
    CsvRow(Anna, DaysBeforeMonth(month) + 14, Apollo, Acme, catDev, hours, 50)

RECURSIVE TrendFilesUpTo(_)
TrendFilesUpTo(month) ==
    IF month = 0 THEN {<<>>}
    ELSE LET earlier == TrendFilesUpTo(month - 1)
         IN  earlier \cup {Append(file, TrendRow(month, hours))
                           : file \in earlier, hours \in {1000, 4000}}

TrendFiles == TrendFilesUpTo(TrendMonths) \ {<<>>}

InitTrends == InitOn(TrendFiles)

NextTrends == QuickTrends

SpecTrends == InitTrends /\ [][NextTrends]_vars

\* a session of drill-downs and sidebar changes on one export
InitDrill == InitOn(LongExports)

NextDrill ==
    \/ AnalyzeCategory
    \/ AnalyzeMonth
    \/ BackToOverview
    \/ ChangeEmployees
    \/ ChangeCategories

SpecDrill == InitDrill /\ [][NextDrill]_vars

\* the first run on one export on any day of the year, then the period
\* buttons of tab2
ReferenceDays == 0..(DaysBeforeMonth(12) + DaysInMonth[12] - 1)

InitPeriods ==
    /\ uploaded_file = Csv(FirstExport)
    /\ bundled_file = NoFile
    /\ df = load_data(uploaded_file.rows)
    /\ now \in {ToDatetime(day) : day \in ReferenceDays}
    /\ selected_date_range = <<date_min(df), date_max(df)>>
    /\ selected_employees = {All}
    /\ selected_projects = {All}
    /\ selected_clients = {All}
    /\ selected_categories = {All}
    /\ filtered_df = df
    /\ compliance \in Tabs(filtered_df, now)
    /\ page = Dashboard({Tab6Download(filtered_df)})
    /\ secure_chatbot = [df |-> filtered_df]
    /\ secure_chat_history = <<>>
    /\ last_query = NoQuery
    /\ NavigationStart

NextPeriods == SelectPeriod

SpecPeriods == InitPeriods /\ [][NextPeriods]_vars

\* exports that also hold a correction (negative hours) and an entry of no
\* hours; the checkbox of tab5, its download button and the category filter
CorrectionRows ==
    << CsvRow(Bob,  10, Zephyr, Zenith, catDev,     0 - 200, 60),
       CsvRow(Anna, 10, Apollo, Acme,   catSupport, 0,       40) >>

CorrectionFiles == {file \o CorrectionRows : file \in Exports}

InitAdvanced == InitOn(CorrectionFiles)

NextAdvanced ==
    \/ ToggleExcludeZeroHours
    \/ DownloadFilteredData
    \/ ChangeCategories

SpecAdvanced == InitAdvanced /\ [][NextAdvanced]_vars

\* a session on a roster of many employees, projects and clients, in which
\* the category filter is changed
RosterSize == 16

RosterRow(i) ==
    CsvRow(<<"E">> \o Fmt02(i), 20 + (i % 5),
           <<"P">> \o Fmt02(i % 11), <<"R">> \o Fmt02(i % 12),
           IF i % 3 = 0 THEN catSupport ELSE catDev,
           (((i * 7) % 13) + 1) * 100, 40 + 10 * (i % 4))

Roster == [i \in 1..RosterSize |-> RosterRow(i)]

RosterFiles == {SubSeq(Roster, 1, n) : n \in 1..RosterSize}

InitSummaries == InitOn(RosterFiles)

NextSummaries == ChangeCategories

SpecSummaries == InitSummaries /\ [][NextSummaries]_vars

\* the routines of a chatbot built on any run of consecutive records of a
\* long export, the empty one included: one question per keyword list, and
\* the four quick-insight buttons
Subsets(frame) ==
    {SubSeq(frame, a, b) : a \in 1..(Len(frame) + 1), b \in 0..Len(frame)}

InitRoutines ==
    /\ FirstRun(LongExports)
    /\ secure_chatbot \in {[df |-> subset] : subset \in Subsets(df)}

AskRoutine == \E c \in 1..Len(CategoryPatterns) : Ask(CategoryPatterns[c][1])

NextRoutines ==
    \/ AskRoutine
    \/ QuickTop
    \/ QuickCompliance
    \/ QuickTrends
    \/ QuickRevenue

SpecRoutines == InitRoutines /\ [][NextRoutines]_vars

\* a session on a long export in which any question is asked
InitRouter == InitOn(LongExports)

NextRouter == AskAny

SpecRouter == InitRouter /\ [][NextRouter]_vars

\* ==================================================================== claims
\* ------------------------------------------------------------ apply_filters
\* the selection holds 'All'
HasAll(selected) == All \in selected

\* the row's day lies in the selected range, both ends included
DateBounded(r) ==
    /\ selected_date_range[1] <= DtDate(r.Datum)
    /\ DtDate(r.Datum) <= selected_date_range[2]

\* the rows of df for which Keep holds, in their order
Kept(Keep(_)) == SelectSeq(df, Keep)

\* C1 as stated: with a date range selected, the result is the date-bounded
\* rows of df whose value in every dimension is a member of that dimension's
\* selection, a selection holding 'All' admitting every value.
C1_AsStated ==
    Len(selected_date_range) = 2 =>
        LET Keep(r) ==
                /\ DateBounded(r)
                /\ HasAll(selected_employees) \/ r.Medewerker \in selected_employees
                /\ HasAll(selected_projects) \/ r.Project \in selected_projects
                /\ HasAll(selected_clients) \/ r.Relatie \in selected_clients
                /\ HasAll(selected_categories) \/ r.Categorie \in selected_categories
        IN  filtered_df = Kept(Keep)

\* a selection that admits every value: it holds 'All' or it is empty
Unrestricted(selected) == HasAll(selected) \/ selected = {}

\* C1 amended: with a date range selected, the result is the date-bounded
\* rows of df, unchanged and in their order, whose value in every dimension
\* with a non-empty selection without 'All' is exactly a member of that
\* selection; a selection that holds 'All' or is empty does not restrict.
C1_AllOrMembers ==
    Len(selected_date_range) = 2 =>
        LET Keep(r) ==
                /\ DateBounded(r)
                /\ Unrestricted(selected_employees) \/ r.Medewerker \in selected_employees
                /\ Unrestricted(selected_projects) \/ r.Project \in selected_projects
                /\ Unrestricted(selected_clients) \/ r.Relatie \in selected_clients
                /\ Unrestricted(selected_categories) \/ r.Categorie \in selected_categories
        IN  filtered_df = Kept(Keep)

\* C1's case: a non-empty employee selection without 'All' that keeps some of
\* the date-bounded rows and drops others, the other selections being 'All'
C1_Witness ==
    /\ Len(selected_date_range) = 2
    /\ ~Unrestricted(selected_employees)
    /\ selected_projects = {All} /\ selected_clients = {All}
    /\ selected_categories = {All}
    /\ filtered_df # <<>>
    /\ Len(filtered_df) < Len(date_filter(df, selected_date_range))

\* the k-th filter of the sidebar, k in 1..5, applied to a frame
Stage(k, frame) ==
    CASE k = 1 -> date_filter(frame, selected_date_range)
      [] k = 2 -> employee_filter(frame, selected_employees)
      [] k = 3 -> project_filter(frame, selected_projects)
      [] k = 4 -> client_filter(frame, selected_clients)
      [] k = 5 -> category_filter(frame, selected_categories)

\* the filters in todo, applied to the frame in whatever order, give the result
RECURSIVE EveryOrderGives(_, _, _)
EveryOrderGives(todo, frame, result) ==
    IF todo = {} THEN frame = result
    ELSE \A k \in todo : EveryOrderGives(todo \ {k}, Stage(k, frame), result)

\* the row passes the k-th filter, or that filter is not active
Satisfies(k, r) ==
    CASE k = 1 -> Len(selected_date_range) # 2 \/ DateBounded(r)
      [] k = 2 -> Unrestricted(selected_employees) \/ r.Medewerker \in selected_employees
      [] k = 3 -> Unrestricted(selected_projects) \/ r.Project \in selected_projects
      [] k = 4 -> Unrestricted(selected_clients) \/ r.Relatie \in selected_clients
      [] k = 5 -> Unrestricted(selected_categories) \/ r.Categorie \in selected_categories

\* C2: a row of df is in the result iff it satisfies every active filter,
\* and the five filters applied in any order give the result.
C2_ConjunctionAnyOrder ==
    /\ \A i \in 1..Len(df) :
          (df[i] \in Rows(filtered_df)) <=> (\A k \in 1..5 : Satisfies(k, df[i]))
    /\ EveryOrderGives(1..5, df, filtered_df)

\* C2's case: two filters are active, each drops a row the other one keeps
C2_Witness ==
    \E j, k \in 1..5 : \E a, b \in 1..Len(df) :
        /\ j # k
        /\ ~Satisfies(j, df[a]) /\ Satisfies(k, df[a])
        /\ Satisfies(j, df[b]) /\ ~Satisfies(k, df[b])

NoDimensionRestricts ==
    /\ Unrestricted(selected_employees) /\ Unrestricted(selected_projects)
    /\ Unrestricted(selected_clients) /\ Unrestricted(selected_categories)

\* the row's timestamp lies between midnight of the start date and the end
\* of the end date
WithinDays(r) ==
    /\ ToDatetime(selected_date_range[1]) <= r.Datum
    /\ r.Datum < ToDatetime(selected_date_range[2] + 1)

\* C3: with a range (start, end) selected every kept row lies on a day from
\* start to end, and a row on such a day, the two end days included, is
\* kept whenever no other filter restricts.
C3_ClosedDateInterval ==
    Len(selected_date_range) = 2 =>
        /\ \A r \in Rows(filtered_df) : WithinDays(r)
        /\ NoDimensionRestricts =>
              \A r \in Rows(df) : WithinDays(r) => r \in Rows(filtered_df)

\* C3's case: a row on the start day and a row on a later end day are kept
\* and a row outside the range is dropped
C3_Witness ==
    /\ Len(selected_date_range) = 2
    /\ selected_date_range[1] < selected_date_range[2]
    /\ \E r \in Rows(filtered_df) : DtDate(r.Datum) = selected_date_range[1]
    /\ \E r \in Rows(filtered_df) : DtDate(r.Datum) = selected_date_range[2]
    /\ \E r \in Rows(df) : r \notin Rows(filtered_df) /\ ~WithinDays(r)

\* ----------------------------------------------------- compliance monitor
\* the rows of the filtered frame dated in the week the monitor shows
WeekRows ==
    {r \in Rows(filtered_df) :
        /\ compliance.last_week_start <= DtDate(r.Datum)
        /\ DtDate(r.Datum) <= compliance.last_week_end}

\* the hours an employee logged in that week, in hundredths
Logged(emp) ==
    LET Mine(r) == r \in WeekRows /\ r.Medewerker = emp
    IN  SumAantal(SelectSeq(filtered_df, Mine))

OnLeave(emp) == \E r \in WeekRows : r.Medewerker = emp /\ r.Is_Leave

\* the employee is in the table of incomplete timesheets
Flagged(emp) ==
    \E i \in 1..Len(compliance.incomplete_display) :
        compliance.incomplete_display[i].Medewerker = emp

\* C4 as stated: an employee with a record in last week is flagged iff the
\* hours logged are strictly less than expected_hours and no record of that
\* week carries the leave flag, and the missing hours shown are
\* expected_hours minus the hours logged shown beside them.
C4_AsStated ==
    compliance.rendered =>
        \A emp \in {r.Medewerker : r \in WeekRows} :
            /\ Flagged(emp) <=>
                  (Logged(emp) < compliance.expected_hours /\ ~OnLeave(emp))
            /\ \A i \in 1..Len(compliance.incomplete_display) :
                  compliance.incomplete_display[i].Medewerker = emp =>
                      compliance.incomplete_display[i].Hours_Missing =
                          compliance.expected_hours
                            - compliance.incomplete_display[i].Hours_Logged

\* C4, the two cases it names (not the claim's general statement): in a
\* 5-working-day week 40.00 hours without leave are not flagged, 30.00 hours
\* without leave are flagged with 10.00 hours missing.
C4_NamedCases ==
    (compliance.rendered /\ compliance.working_days = 5) =>
        \A emp \in {r.Medewerker : r \in WeekRows} :
            /\ (Logged(emp) = 4000 /\ ~OnLeave(emp)) => ~Flagged(emp)
            /\ (Logged(emp) = 3000 /\ ~OnLeave(emp)) =>
                  \E i \in 1..Len(compliance.incomplete_display) :
                      /\ compliance.incomplete_display[i].Medewerker = emp
                      /\ compliance.incomplete_display[i].Hours_Missing = 1000

\* the Monday of the week that holds the day
MondayOfWeek(day) == CHOOSE m \in (day - 6)..day : Weekday(m) = 0

\* C6: whatever day the script runs on, last week starts on a Monday, ends
\* on the Sunday six days later, and that Sunday is the day before the
\* Monday of the running week.
C6_LastWeekMondayToSunday ==
    compliance.rendered =>
        /\ Weekday(compliance.last_week_start) = 0
        /\ compliance.last_week_end = compliance.last_week_start + 6
        /\ Weekday(compliance.last_week_end) = 6
        /\ compliance.last_week_end + 1 = MondayOfWeek(DtDate(now))

\* C6's case: the script runs on a Sunday afternoon, the last day and tick
\* of a week
C6_Witness ==
    /\ compliance.rendered
    /\ Weekday(DtDate(now)) = 6
    /\ now % TicksPerDay # 0

\* C7: expected_hours is 8 hours for each Monday-to-Friday date of last
\* week; there are 5 of them, so 40 hours, on every day the script runs.
C7_FortyExpectedHours ==
    compliance.rendered =>
        /\ compliance.working_days =
              Cardinality({d \in compliance.last_week_start..compliance.last_week_end :
                             Weekday(d) \in {0, 1, 2, 3, 4}})
        /\ compliance.expected_hours = 8 * 100 * compliance.working_days
        /\ compliance.working_days = 5
        /\ compliance.expected_hours = 40 * 100

\* C7's case: the monitor ran in the second week of the clock's range and
\* found hours logged in the week before
C7_Witness ==
    /\ compliance.rendered
    /\ compliance.last_week_start = FirstNowDay
    /\ compliance.employee_hours # <<>>

\* ------------------------------------------------------------- the chatbot
LastEntry == secure_chat_history[Len(secure_chat_history)]

\* the last question was answered by the compliance routine
ComplianceAnswered ==
    /\ last_query.handler = "_check_compliance_issues"
    /\ secure_chat_history # <<>>
    /\ LastEntry.question = last_query.question
    /\ LastEntry.response.kind = "compliance"

\* the employee has a leave record in the days the chatbot's routine checked
OnLeaveInCheckedDays(emp) ==
    \E r \in Rows(secure_chatbot.df) :
        /\ r.Medewerker = emp
        /\ r.Is_Leave
        /\ r.Datum >= last_query.asked_at - 7 * TicksPerDay

\* C5, the dashboard's half (not the whole claim): the monitor never flags
\* an employee who has a leave record in last week.
C5_DashboardHalf ==
    compliance.rendered =>
        \A emp \in {r.Medewerker : r \in WeekRows} :
            OnLeave(emp) => ~Flagged(emp)

\* C5 as stated: an employee with a leave record in the checked period is
\* never reported incomplete, whatever hours were logged, neither by the
\* dashboard's monitor nor by the chatbot's _check_compliance_issues.
C5_AsStated ==
    /\ compliance.rendered =>
          \A emp \in {r.Medewerker : r \in WeekRows} :
              OnLeave(emp) => ~Flagged(emp)
    /\ ComplianceAnswered =>
          \A i \in 1..Len(LastEntry.response.listed) :
              ~OnLeaveInCheckedDays(LastEntry.response.listed[i].Medewerker)

CategoryNames ==
    <<"employee", "project", "time_period", "compliance", "totals", "revenue",
      "trend", "client", "comparison">>

CategoryHandlers ==
    <<"_get_top_employees", "_get_project_insights",
      "_get_time_period_analysis", "_check_compliance_issues", "_get_totals",
      "_get_revenue_insights", "_analyze_trends", "_get_client_insights",
      "_compare_periods">>

\* what each routine can answer with; none answers with another's text
HandlerKinds(handler) ==
    CASE handler = "_get_top_employees"        -> {"top_employees"}
      [] handler = "_get_project_insights"     -> {"project_insights"}
      [] handler = "_get_time_period_analysis" ->
             {"time_period_analysis", "time_period_no_data"}
      [] handler = "_check_compliance_issues"  ->
             {"compliance", "compliance_no_recent_data"}
      [] handler = "_get_totals"               -> {"totals"}
      [] handler = "_get_revenue_insights"     -> {"revenue_insights"}
      [] handler = "_analyze_trends"           ->
             {"trend_analysis", "trend_needs_more_periods"}
      [] handler = "_get_client_insights"      -> {"client_insights"}
      [] handler = "_compare_periods"          -> {"period_comparison"}
      [] handler = "_get_help_response"        -> {"help"}

\* a question was put to analyze_query
Asked == last_query.handler # "none"

\* the category has a keyword inside the lower-cased, trimmed question
Matches(c) ==
    LET text == StrStrip(StrLower(last_query.question))
    IN  \E k \in 1..Len(CategoryPatterns[c]) :
            StrContains(text, CategoryPatterns[c][k])

Matching == {c \in 1..Len(CategoryPatterns) : Matches(c)}

\* C8: the routine called is that of the first category, in the fixed
\* order, with a keyword inside the lower-cased, trimmed question; the
\* categories after it are not tested; one routine answers; with no
\* matching category the help routine answers.
C8_FirstMatchWins ==
    Asked =>
        LET first == IF Matching = {} THEN 0 ELSE SetMin(Matching)
        IN  /\ last_query.handler =
                  IF first = 0 THEN "_get_help_response"
                               ELSE CategoryHandlers[first]
            /\ last_query.tested =
                  SubSeq(CategoryNames, 1,
                         IF first = 0 THEN Len(CategoryNames) ELSE first)
            /\ secure_chat_history # <<>>
            /\ LastEntry.question = last_query.question
            /\ LastEntry.response.kind \in HandlerKinds(last_query.handler)

\* C8's case: a question with a keyword of the last category before a
\* keyword of the first one went to the first category's routine, and
\* nothing after the first list was tested
C8_Witness ==
    /\ Asked
    /\ Matches(1)
    /\ Matches(9)
    /\ last_query.question[1] = "d"
    /\ last_query.handler = "_get_top_employees"
    /\ last_query.tested = <<"employee">>

\* C9: on a frame with records, "Who worked the most hours?" goes to
\* _get_top_employees, and the employee ranked first in the answer has the
\* largest sum of hours of all employees.
C9_TopEmployeeIsArgmax ==
    (last_query.question = QWhoWorkedMost /\ secure_chatbot.df # <<>>) =>
        /\ last_query.handler = "_get_top_employees"
        /\ secure_chat_history # <<>>
        /\ LastEntry.question = QWhoWorkedMost
        /\ LastEntry.response.kind = "top_employees"
        /\ LET HoursOf(emp) ==
                   SumAantal(SelectSeq(secure_chatbot.df,
                                       LAMBDA r : r.Medewerker = emp))
               top == LastEntry.response.top_3[1].Medewerker
           IN  /\ top \in {r.Medewerker : r \in Rows(secure_chatbot.df)}
               /\ \A r \in Rows(secure_chatbot.df) :
                      HoursOf(r.Medewerker) <= HoursOf(top)

\* C9's case: the question was answered on a frame of several employees
\* where the one with the most hours is not the first by name
C9_Witness ==
    /\ last_query.question = QWhoWorkedMost
    /\ secure_chat_history # <<>>
    /\ LastEntry.response.kind = "top_employees"
    /\ Len(LastEntry.response.top_3) >= 2
    /\ LastEntry.response.top_3[1].Medewerker = Bob
    /\ LastEntry.response.top_3[1].hours > LastEntry.response.top_3[2].hours

\* C10: a question with no keyword of the nine categories is answered with
\* the help text and nothing else, on every frame, and nothing is raised.
C10_UnknownGetsHelp ==
    (Asked /\ Matching = {}) =>
        /\ last_query.handler = "_get_help_response"
        /\ secure_chat_history # <<>>
        /\ LastEntry.question = last_query.question
        /\ LastEntry.response = [kind |-> "help"]

\* C10's case: "asdfqwerty" was asked and answered
C10_Witness ==
    /\ last_query.question = QUnknown
    /\ Matching = {}
    /\ secure_chat_history # <<>>
    /\ LastEntry.response.kind = "help"

\* ------------------------------------------------- what the chatbot answers from
\* C13 as stated: in every state the frame the session's chatbot holds is
\* apply_filters of the loaded frame for the current sidebar selections.
C13_AsStated ==
    secure_chatbot.df =
        apply_filters(df, selected_date_range, selected_employees,
                      selected_projects, selected_clients, selected_categories)

\* ------------------------------------------------------- an empty selection
\* C15 as stated: when the sidebar filters select no record, apply_filters
\* returns the empty frame and the rest of the run completes: no exception
\* leaves the script.
C15_AsStated ==
    (filtered_df = <<>> /\ df # <<>>) =>
        /\ page.status = "dashboard"
        /\ compliance.rendered

\* ------------------------------------------------------ the conversation log
IsPrefix(a, b) == Len(a) <= Len(b) /\ SubSeq(b, 1, Len(a)) = a

\* a step in which the chatbot answered: Ask with a question in the input,
\* or one of the four quick-insight buttons
AnsweredStep ==
    \/ \E q \in SessionQuestions : AskWithin(MaxLog, q)
    \/ QuickTopInLog
    \/ QuickComplianceInLog
    \/ QuickTrendsInLog
    \/ QuickRevenueInLog

\* C11: an answered chat interaction appends exactly one entry of question,
\* response and timestamp at the end of the log; Ask with an empty question
\* appends nothing; in no step does the log get shorter or an entry already
\* in it get removed, moved or changed.
C11_LogAppendOnly ==
    [][ /\ IsPrefix(secure_chat_history, secure_chat_history')
        /\ AnsweredStep =>
              /\ Len(secure_chat_history') = Len(secure_chat_history) + 1
              /\ DOMAIN secure_chat_history'[Len(secure_chat_history')]
                    = {"question", "response", "timestamp"}
              /\ secure_chat_history'[Len(secure_chat_history')].question
                    = last_query'.question
        /\ AskWithin(MaxLog, <<>>) =>
              secure_chat_history' = secure_chat_history
        /\ ~AnsweredStep => secure_chat_history' = secure_chat_history
      ]_vars

\* C11's case: the log holds the answer to a quick-insight button and,
\* after it, the answer to a typed question
C11_Witness ==
    /\ Len(secure_chat_history) = 2
    /\ secure_chat_history[1].question \in QuickLabels
    /\ secure_chat_history[2].question = QWhoWorkedMost
    /\ secure_chat_history[1].response # secure_chat_history[2].response

RaisedInChat == page.status = "exception" /\ page.at = "chatbot"

\* C14 as stated: whenever a routine of a chatbot that holds no record is
\* called, by a question or by a quick-insight button, it returns a message
\* (which the log then holds) and raises no exception
C14_AsStated ==
    (secure_chatbot.df = <<>> /\ Asked)
        => (~RaisedInChat /\ secure_chat_history # <<>>)

\* ------------------------------------------------------- percentage of total
\* the revenue routine answered for a frame whose revenue is 0 in total
ZeroRevenueAnswered ==
    /\ secure_chat_history # <<>>
    /\ LastEntry.response.kind = "revenue_insights"
    /\ SumTotaal(secure_chatbot.df) = 0

\* C16 as stated: when the total revenue is 0, every percentage of total
\* that the revenue insights show is the number 0
C16_AsStated ==
    ZeroRevenueAnswered
        => \A i \in DOMAIN LastEntry.response.by_category :
              LastEntry.response.by_category[i].pct = Finite(0)

\* --------------------------------------------------------- export round trip
RECURSIVE SumUurtarief(_)
\* frame['Uurtarief'].sum()
SumUurtarief(frame) ==
    IF frame = <<>> THEN 0
    ELSE Head(frame).Uurtarief + SumUurtarief(Tail(frame))

\* the CSV text of a download loads again, into as many records as were
\* exported, with the same sums of hours, rate and total
RoundTrips(download) ==
    /\ ~load_data_raises(download.csv)
    /\ LET reloaded == load_data(download.csv)
       IN  /\ Len(reloaded) = Len(download.exported)
           /\ SumAantal(reloaded) = SumAantal(download.exported)
           /\ SumUurtarief(reloaded) = SumUurtarief(download.exported)
           /\ SumTotaal(reloaded) = SumTotaal(download.exported)

\* every date of the CSV text of a download reads DD-MM-YYYY and is the
\* date of the record it was written from
DatesWrittenDMY(download) ==
    \A i \in 1..Len(download.csv) :
        download.csv[i].Datum = FormatDMY(DtDate(download.exported[i].Datum))

\* C18 as stated: the CSV of every download the page offers, the Advanced
\* Analytics one and the Data Export one, loads again through load_data
\* with the same row count and sums, and its dates are written DD-MM-YYYY
C18_AsStated ==
    \A download \in page.downloads :
        RoundTrips(download) /\ DatesWrittenDMY(download)

\* the Data Export half of C18: the download of tab6 round-trips
C18_DataExportHalf ==
    \A download \in page.downloads :
        download.button = "Download filtered data as CSV"
            => (RoundTrips(download) /\ DatesWrittenDMY(download))

\* ------------------------------------------------------- group-by additivity
\* C17 as stated: for the frame load_data returned, the hours summed per
\* group of each grouping column (employee, project, client, category,
\* month name) add up to the hours of the whole frame
C17_AsStated ==
    df # <<>>
        => /\ \A c \in 1..Len(Columns) :
                  GroupedHours(df, Columns[c]) = SumAantal(df)
           /\ MonthlyHours(df) = SumAantal(df)

\* ----------------------------------------------------------------- load gate
\* the file of this run: the uploaded one, else the bundled one
CurrentFile == SourceFile(uploaded_file, bundled_file)

\* there is no file to read, or load_data cannot parse the one there is
LoadFails == ~CurrentFile.present \/ load_data_raises(CurrentFile.rows)

\* C19 as stated: when the file is missing or cannot be parsed, the run
\* ends at the blocking message: nothing is filtered or rendered, and no
\* exception reaches the user
C19_AsStated ==
    LoadFails
        => /\ page.status = "stopped"
           /\ filtered_df = <<>>
           /\ ~compliance.rendered

\* the missing-file half of C19: with no file at all the run stops at the
\* message
C19_MissingFileHalf == ~CurrentFile.present => page = Stopped

\* ------------------------------------------------------------------ defaults
\* the default the specification names for each of the four columns
Defaults ==
    << <<"U","n","a","s","s","i","g","n","e","d">>,
       <<"U","n","k","n","o","w","n"," ","P","r","o","j","e","c","t">>,
       <<"U","n","k","n","o","w","n"," ","C","l","i","e","n","t">>,
       <<"O","t","h","e","r">> >>

\* C20 as stated: in the loaded frame every record has its employee,
\* project, client and category: the cell of the file, or the named default
\* where the cell was empty
C20_AsStated ==
    df # <<>>
        => \A i \in 1..Len(df) : \A c \in 1..Len(Columns) :
              df[i][Columns[c]] =
                  IF CurrentFile.rows[i][Columns[c]] = NaN
                  THEN Defaults[c]
                  ELSE CurrentFile.rows[i][Columns[c]]

\* ------------------------------------------------- order of flagged employees
\* the dashboard's table of incomplete timesheets is in non-increasing order
\* of Hours Missing
DashboardFlaggedInOrder ==
    \A i, j \in 1..Len(compliance.incomplete_display) :
        i < j => compliance.incomplete_display[i].Hours_Missing
                    >= compliance.incomplete_display[j].Hours_Missing

\* the employees the chatbot's compliance answer lists are in non-increasing
\* order of missing hours
ChatFlaggedInOrder ==
    \A i, j \in 1..Len(LastEntry.response.listed) :
        i < j => LastEntry.response.listed[i].missing
                    >= LastEntry.response.listed[j].missing

\* C21, the dashboard's half (not the whole claim): the incomplete-timesheets
\* table is sorted by missing hours, largest first
C21_DashboardHalf == compliance.rendered => DashboardFlaggedInOrder

\* C21 as stated: in the dashboard's incomplete-timesheets table and in the
\* chatbot's compliance answer, no flagged employee comes before one who has
\* strictly more missing hours
C21_AsStated ==
    /\ compliance.rendered => DashboardFlaggedInOrder
    /\ ComplianceAnswered => ChatFlaggedInOrder

\* ------------------------------------------------- summary order and Top-N
\* the table is in non-increasing order of the column
NonIncreasing(table, column) ==
    \A i, j \in 1..Len(table) : i < j => table[i][column] >= table[j][column]

\* the view is the first min(n, groups) rows of the table, and no row left
\* out of it has strictly more in the column than a row in it
IsTopN(view, table, n, column) ==
    /\ Len(view) = (IF Len(table) < n THEN Len(table) ELSE n)
    /\ \A i \in 1..Len(view) : view[i] = table[i]
    /\ \A i \in 1..Len(view) : \A j \in (Len(view) + 1)..Len(table) :
          table[j][column] <= view[i][column]

\* C22: for the filtered frame of the run, the employee and the project
\* summary are in non-increasing order of total hours and the client summary
\* of total revenue, and every Top-N view (3, 8, 10, 15) is the first
\* min(N, groups) groups of its summary, so that no group left out has
\* strictly more than one that is in
C22_SummariesSortedTopN ==
    /\ \A table \in employee_summary(filtered_df) :
          /\ NonIncreasing(table, "Total_Hours")
          /\ IsTopN(top_employees(table), table, TopBars, "Total_Hours")
          /\ IsTopN(period_employees(table), table, TopPeriod, "Total_Hours")
          /\ IsTopN(top_3(table), table, TopChat, "Total_Hours")
    /\ \A table \in project_summary(filtered_df) :
          /\ NonIncreasing(table, "Total_Hours")
          /\ IsTopN(top_projects(table), table, TopBars, "Total_Hours")
    /\ \A table \in client_summary(filtered_df) :
          /\ NonIncreasing(table, "Total_Revenue")
          /\ IsTopN(top_clients(table), table, TopBars, "Total_Revenue")
          /\ IsTopN(pie_clients(table), table, TopPie, "Total_Revenue")

\* a filtered frame with more groups than every Top-N view shows, whose
\* summaries are not in the order of their keys
C22_Witness ==
    /\ selected_categories # {All}
    /\ Cardinality(Employees(filtered_df)) > TopPeriod
    /\ Cardinality(Projects(filtered_df)) > TopBars
    /\ Cardinality(Clients(filtered_df)) > TopBars
    /\ \E table \in employee_summary(filtered_df) :
          /\ Len(period_employees(table)) = TopPeriod
          /\ \E i, j \in 1..Len(table) :
                i < j /\ StrLess(table[j].Name, table[i].Name)
          /\ table[TopBars].Total_Hours > table[Len(table)].Total_Hours

\* ------------------------------------------------ the chatbot's compliance
\* the records of the chatbot dated in the 7 days up to the time of asking
TrailingWeek ==
    SelectSeq(secure_chatbot.df,
              LAMBDA r : /\ r.Datum >= AddDays(last_query.asked_at, 0 - 7)
                         /\ r.Datum <= last_query.asked_at)

\* the employees with records in those days whose hours there are under 35
ShortInTrailingWeek ==
    {emp \in Employees(TrailingWeek) :
        SumAantal(EmployeeRows(TrailingWeek, emp)) < 35 * 100}

\* C23 as stated: the compliance answer of the chatbot reports exactly the
\* employees whose hours in the trailing 7 days are under 35; it lists at
\* most 5 of them, each with missing = 35 - hours, and says how many more
\* there are when there are more than 5
C23_AsStated ==
    (last_query.handler = "_check_compliance_issues" /\ secure_chat_history # <<>>
        /\ LastEntry.question = last_query.question)
        => IF TrailingWeek = <<>>
           THEN LastEntry.response.kind = "compliance_no_recent_data"
           ELSE /\ LastEntry.response.kind = "compliance"
                /\ LastEntry.response.incomplete = Cardinality(ShortInTrailingWeek)
                /\ Len(LastEntry.response.listed) <= 5
                /\ \A i \in 1..Len(LastEntry.response.listed) :
                      LET row == LastEntry.response.listed[i]
                      IN  /\ row.Medewerker \in ShortInTrailingWeek
                          /\ row.missing =
                                Fmt0(35 * 100 - SumAantal(EmployeeRows(TrailingWeek,
                                                                      row.Medewerker)))
                /\ LastEntry.response.more =
                      (IF Cardinality(ShortInTrailingWeek) > 5
                       THEN Cardinality(ShortInTrailingWeek) - 5 ELSE 0)

\* ------------------------------------------------- case and padding of a question
\* str.upper() on the letters of the questions
Upper(c) ==
    IF \E u \in {"A","B","C","D","E","F","G","H","I","J","K","L","M","N","O",
                 "P","Q","R","S","T","U","V","W","X","Y","Z"} : Lower(u) = c
    THEN CHOOSE u \in {"A","B","C","D","E","F","G","H","I","J","K","L","M","N",
                       "O","P","Q","R","S","T","U","V","W","X","Y","Z"} :
             Lower(u) = c
    ELSE c

StrUpper(s) == [i \in 1..Len(s) |-> Upper(s[i])]

\* every second letter in upper case
StrAlternating(s) ==
    [i \in 1..Len(s) |-> IF i % 2 = 0 THEN Upper(s[i]) ELSE Lower(s[i])]

\* the question in other cases, and with blanks, tabs and newlines around it
Recased(q) == {q, StrUpper(q), StrLower(q), StrAlternating(q)}

Padded(q) ==
    {q, <<" ">> \o q, q \o <<" ", " ">>, <<"\t", " ">> \o q \o <<"\n">>}

Variants(q) == UNION {Padded(r) : r \in Recased(q)}

HelpSections ==
    { [handler |-> "_get_top_employees",
       examples |-> { <<"W","h","o"," ","w","o","r","k","e","d"," ","t","h","e"," ","m","o","s","t"," ","h","o","u","r","s","?">>,
                      <<"S","h","o","w"," ","m","e"," ","t","o","p"," ","e","m","p","l","o","y","e","e","s">>,
                      <<"W","h","o"," ","a","r","e"," ","t","h","e"," ","b","e","s","t"," ","p","e","r","f","o","r","m","e","r","s","?">> }],
      [handler |-> "_get_project_insights",
       examples |-> { <<"W","h","i","c","h"," ","p","r","o","j","e","c","t","s"," ","h","a","v","e"," ","t","h","e"," ","m","o","s","t"," ","h","o","u","r","s","?">>,
                      <<"S","h","o","w"," ","m","e"," ","p","r","o","j","e","c","t"," ","i","n","s","i","g","h","t","s">>,
                      <<"W","h","a","t"," ","a","r","e"," ","o","u","r"," ","b","i","g","g","e","s","t"," ","p","r","o","j","e","c","t","s","?">> }],
      [handler |-> "_get_time_period_analysis",
       examples |-> { <<"W","h","a","t"," ","h","a","p","p","e","n","e","d"," ","l","a","s","t"," ","w","e","e","k","?">>,
                      <<"S","h","o","w"," ","m","e"," ","l","a","s","t"," ","m","o","n","t","h","'","s"," ","d","a","t","a">>,
                      <<"A","n","a","l","y","z","e"," ","l","a","s","t"," ","q","u","a","r","t","e","r">> }],
      [handler |-> "_check_compliance_issues",
       examples |-> { <<"C","h","e","c","k"," ","c","o","m","p","l","i","a","n","c","e"," ","i","s","s","u","e","s">>,
                      <<"W","h","o"," ","h","a","s"," ","i","n","c","o","m","p","l","e","t","e"," ","t","i","m","e","s","h","e","e","t","s","?">>,
                      <<"S","h","o","w"," ","m","i","s","s","i","n","g"," ","e","n","t","r","i","e","s">> }],
      [handler |-> "_get_revenue_insights",
       examples |-> { <<"W","h","a","t","'","s"," ","o","u","r"," ","t","o","t","a","l"," ","r","e","v","e","n","u","e","?">>,
                      <<"S","h","o","w"," ","m","e"," ","r","e","v","e","n","u","e"," ","b","y"," ","c","l","i","e","n","t">>,
                      <<"R","e","v","e","n","u","e"," ","t","r","e","n","d","s">> }],
      [handler |-> "_analyze_trends",
       examples |-> { <<"A","n","a","l","y","z","e"," ","t","r","e","n","d","s">>,
                      <<"W","h","a","t"," ","a","r","e"," ","t","h","e"," ","p","a","t","t","e","r","n","s","?">> }],
      [handler |-> "_compare_periods",
       examples |-> { <<"C","o","m","p","a","r","e"," ","t","i","m","e"," ","p","e","r","i","o","d","s">> }] }

ListedUnder(q) == (CHOOSE s \in HelpSections : q \in s.examples).handler

\* C25 as stated: every example of the help text is answered by the routine
\* of the heading it is listed under; none is answered by the help text or by
\* the routine of another category.
C25_AsStated ==
    (Asked /\ last_query.tested # <<>> /\ last_query.question \in HelpExamples)
        => last_query.handler = ListedUnder(last_query.question)

\* the examples that are answered by the routine of their heading
C25_ExamplesRoutedAsListed ==
    {q \in HelpExamples :
        \A o \in analyze_query(secure_chatbot.df, now, q) :
            o.handler = ListedUnder(q)}

\* the examples are those of the sections, and all but two of them are
\* answered as listed
C25_OtherExamples ==
    /\ HelpExamples = UNION {s.examples : s \in HelpSections}
    /\ Cardinality(HelpExamples \ C25_ExamplesRoutedAsListed) = 2

\* ------------------------------------------------------------ the trend line
\* the hours of the months of the chatbot's frame in calendar order
HoursByCalendarMonth ==
    LET months == [i \in 1..Cardinality(MonthNames(secure_chatbot.df)) |->
                      Nth(MonthNames(secure_chatbot.df), i)]
    IN  [i \in 1..Len(months) |->
            [Month_Name |-> months[i],
             Aantal     |-> SumAantal(MonthRows(secure_chatbot.df, months[i]))]]

TrendAnswered ==
    /\ last_query.handler = "_analyze_trends"
    /\ secure_chat_history # <<>>
    /\ LastEntry.question = last_query.question

\* C29 as stated: with fewer than two months in the data the answer is that
\* more periods are needed; otherwise the trend is "increasing" iff the mean
\* hours of the latest (up to 3) months in calendar order exceed 1.1 times the
\* mean of the earliest (up to 3), "decreasing" iff they are below 0.9 times
\* it, "stable" otherwise, and the peak and lowest months are months of the
\* largest and the smallest summed hours.
C29_AsStated ==
    TrendAnswered =>
        IF Len(HoursByCalendarMonth) < 2
        THEN LastEntry.response.kind = "trend_needs_more_periods"
        ELSE /\ LastEntry.response.kind = "trend_analysis"
             /\ LastEntry.response.trend = TrendOf(HoursByCalendarMonth)
             /\ \A i \in 1..Len(HoursByCalendarMonth) :
                   LET hours == HoursByCalendarMonth[i].Aantal
                   IN  /\ hours <= SumAantal(MonthRows(secure_chatbot.df,
                                                       LastEntry.response.peak_month))
                       /\ hours >= SumAantal(MonthRows(secure_chatbot.df,
                                                       LastEntry.response.low_month))

\* the parts of C29 that hold: the message for fewer than two months, the
\* peak and the lowest month, and the trend line when there are at most three
\* months (the first three and the last three are then the same months)
C29_OtherParts ==
    TrendAnswered =>
        IF Len(HoursByCalendarMonth) < 2
        THEN LastEntry.response.kind = "trend_needs_more_periods"
        ELSE /\ LastEntry.response.kind = "trend_analysis"
             /\ Len(HoursByCalendarMonth) <= 3
                    => LastEntry.response.trend = "stable"
             /\ \A i \in 1..Len(HoursByCalendarMonth) :
                   LET hours == HoursByCalendarMonth[i].Aantal
                   IN  /\ hours <= SumAantal(MonthRows(secure_chatbot.df,
                                                       LastEntry.response.peak_month))
                       /\ hours >= SumAantal(MonthRows(secure_chatbot.df,
                                                       LastEntry.response.low_month))

\* ------------------------------------------- the verdict and the other filters
\* the hours table of last week for the date and employee selections alone,
\* with the project, client and category filters at "All"
HoursOfAllWork ==
    LET week == get_last_week_dates(now)
    IN  last_week_employee_hours(
            last_week_data(apply_filters(df, selected_date_range,
                                         selected_employees, {All}, {All}, {All}),
                           week[1], week[2]))

\* C28 as stated: the compliance block's row of an employee (hours logged,
\* leave) and the employee's incomplete flag are those of the same employee
\* with the project, client and category filters at "All"; so an employee
\* whose records of last week add up to the expected hours is never flagged.
C28_AsStated ==
    compliance.rendered =>
        \A i \in 1..Len(compliance.employee_hours) :
            LET row == compliance.employee_hours[i]
            IN  \E j \in 1..Len(HoursOfAllWork) :
                   /\ HoursOfAllWork[j] = row
                   /\ IsIncomplete(row, compliance.expected_hours)
                        = IsIncomplete(HoursOfAllWork[j], compliance.expected_hours)

\* ------------------------------------------------------ the drill-down state
\* C26 as stated: a drill-down is active iff its type is "category" or
\* "month" and its value is a value the selector offered, never None; it is
\* inactive iff type and value are both None.
C26_AsStated ==
    /\ drill_down_active <=>
          /\ drill_down_type \in {"category", "month"}
          /\ drill_down_value # None
    /\ ~drill_down_active <=>
          /\ drill_down_type = "none"
          /\ drill_down_value = None

\* the parts of C26 that hold in every state: inactive iff type and value are
\* both None; an active drill-down has type "category" or "month", and its
\* value, when it is not None, is a category or a month of the loaded data
C26_OtherParts ==
    /\ ~drill_down_active <=>
          /\ drill_down_type = "none"
          /\ drill_down_value = None
    /\ drill_down_active => drill_down_type \in {"category", "month"}
    /\ (drill_down_active /\ drill_down_value # None) =>
          IF drill_down_type = "category"
          THEN drill_down_value \in category_options(df)
          ELSE drill_down_value \in available_months(df)

\* the transitions of C26: the flag is set by the two Analyze buttons only
\* and cleared by "Back to Overview" only, which resets type and value with it
C26_Transitions ==
    [][/\ (~drill_down_active /\ drill_down_active')
            => (AnalyzeCategory \/ AnalyzeMonth)
       /\ (drill_down_active /\ ~drill_down_active')
            => (BackToOverview /\ drill_down_type' = "none"
                               /\ drill_down_value' = None)
       /\ (drill_down_active /\ drill_down_active')
            => UNCHANGED <<drill_down_type, drill_down_value>>]_vars

\* ------------------------------------------------------------ the last quarter
\* the quarter of a month, and the quarter before it with its year
QuarterOf(month) == ((month - 1) \div 3) + 1

\* the first and the last day of a quarter of a year
QuarterDates(year, quarter) ==
    <<DateOf(year, 3 * quarter - 2, 1),
      DateOf(year, 3 * quarter, DaysInMonth[3 * quarter])>>

PrecedingQuarterDates(today) ==
    LET quarter == QuarterOf(MonthOf(DtDate(today)))
    IN  IF quarter = 1 THEN QuarterDates(Year - 1, 4)
        ELSE QuarterDates(Year, quarter - 1)

\* C27 as stated: for every reference date, the interval of "Last Quarter"
\* is the complete calendar quarter before the one of the reference date,
\* from the first day of its first month to the last day of its third month.
C27_AsStated ==
    (time_period = "last_quarter" /\ Tab2Drawn)
        => period_dates(time_period, now) = PrecedingQuarterDates(now)

\* the parts of C27 that hold: the interval starts on the first day of the
\* preceding quarter, and for a reference date in the first quarter it is
\* 1 October to 31 December of the year before
C27_OtherParts ==
    (time_period = "last_quarter" /\ Tab2Drawn)
        => /\ period_dates(time_period, now)[1] = PrecedingQuarterDates(now)[1]
           /\ QuarterOf(MonthOf(DtDate(now))) = 1
                => period_dates(time_period, now) = PrecedingQuarterDates(now)

\* --------------------------------------------------- the advanced filters
\* the frame behind tab5's "Download CSV" button
AdvancedExports ==
    {d.exported : d \in {x \in page.downloads : x.button = "Download CSV"}}

\* C30 as stated: with the advanced controls at their defaults the
\* advanced-filtered set is the sidebar-filtered set, no record dropped; with
\* "Exclude Zero Hours" on, it holds no record of hours <= 0 and every record
\* of hours > 0.
C30_AsStated ==
    \A exported \in AdvancedExports :
        IF exclude_zero_hours
        THEN LET Positive(r) == r.Aantal > 0
             IN  exported = Mask(filtered_df, Positive)
        ELSE exported = filtered_df

\* the part of C30 that holds: with "Exclude Zero Hours" on, no record of
\* hours <= 0 remains and every record of hours > 0 is kept, in file order
C30_ExcludeZeroHours ==
    \A exported \in AdvancedExports :
        exclude_zero_hours =>
            LET Positive(r) == r.Aantal > 0
            IN  exported = Mask(filtered_df, Positive)
====
